---- MODULE Spec2Model ----
(***************************************************************************)
(* A model of the chomp parser-combinator core (github.com/purpleclay/chomp) *)
(*                                                                         *)
(* A Go string is modelled as a sequence of characters (code points); each *)
(* character has a width in bytes, so that byte offsets (len, s[i:]) and   *)
(* character counts differ as they do for UTF-8 text.  A constructed       *)
(* parser (a Go closure) is modelled by the term that built it, and        *)
(* invoking it by the operator Run, which dispatches to one operator per   *)
(* combinator, each translated from its source.                            *)
(***************************************************************************)
EXTENDS Integers, Sequences, FiniteSets

VARIABLES
    parser,     \* the constructed parser of the last invocation (Spec)
    input,      \* the text it was invoked with
    result,     \* what the invocation returned: rem, out, err (+ the calls it made)
    phase,      \* "built" until the parser is first invoked, then "returned"
    loop,       \* SpecLoop: the frame of a repetition loop executed step by step
    shared,     \* SpecConc: the variables n, m captured by a RepeatRange closure
    gor         \* SpecConc: the goroutines invoking that closure

vars == <<parser, input, result, phase, loop, shared, gor>>

----------------------------------------------------------------------------
(* Bounds of the model *)

\* longest input text, in characters
MaxLen == 3
\* largest count argument (n, m) given to a counted combinator
MaxCount == 2
\* width, in bits, of the model's uint counters (64 in the source)
CountBits == 3
\* number of collected elements after which the model stops recording further ones
MaxExt == 5

----------------------------------------------------------------------------
(* Text: characters, byte widths, slicing by byte offset *)

\* "a" is a one-byte letter, "u" stands for a letter that takes two bytes in
\* UTF-8 (such as U+00FC), "1" is a one-byte digit.
Alphabet == {"a", "u", "1"}

Width(c) == IF c = "u" THEN 2 ELSE 1

RECURSIVE SeqsUpTo(_, _)
SeqsUpTo(S, k) ==
    IF k = 0 THEN {<<>>}
    ELSE LET shorter == SeqsUpTo(S, k - 1)
         IN  shorter \cup {Append(x, c) : x \in shorter, c \in S}

Inputs == SeqsUpTo(Alphabet, MaxLen)

\* len(s): the length of a string in bytes
RECURSIVE ByteLen(_)
ByteLen(s) == IF s = <<>> THEN 0 ELSE Width(Head(s)) + ByteLen(Tail(s))

\* the number of leading characters of s that lie within its first pos bytes
RECURSIVE CharsIn(_, _)
CharsIn(s, pos) ==
    IF s = <<>> \/ pos < Width(Head(s)) THEN 0
    ELSE 1 + CharsIn(Tail(s), pos - Width(Head(s)))

\* s[:pos] and s[pos:] for a byte offset pos on a character boundary
SliceTo(s, pos) == SubSeq(s, 1, CharsIn(s, pos))
SliceFrom(s, pos) == SubSeq(s, CharsIn(s, pos) + 1, Len(s))

HasPrefix(s, str) == Len(s) >= Len(str) /\ SubSeq(s, 1, Len(str)) = str

----------------------------------------------------------------------------
(* Predicates *)

isDigit(r) == r = "1"
isLetter(r) == r \in {"a", "A", "u"}
isLineEnding(r) == r \in {"\n", "\r"}

Match(p, r) ==
    CASE p = "is_digit" -> isDigit(r)
      [] p = "is_letter" -> isLetter(r)
      [] p = "is_line_ending" -> isLineEnding(r)

----------------------------------------------------------------------------
(* Errors: an error value is the sequence of its layers, outermost first;   *)
(* Unwrap drops the outermost layer and the empty sequence is nil.          *)

NoErr == <<>>

Layer(kind, type, text, inp, count, min, max) ==
    [kind |-> kind, type |-> type, text |-> text, input |-> inp,
     count |-> count, min |-> min, max |-> max]

CombinatorParseError(inp, text, type) ==
    <<Layer("CombinatorParseError", type, text, inp, 0, 0, 0)>>

\* a ParserError built without its Err field
ParserErrorBare(err, type) == <<Layer("ParserError", type, <<>>, <<>>, 0, 0, 0)>>

ParserError(err, type) ==
    <<Layer("ParserError", type, <<>>, <<>>, 0, 0, 0)>> \o err

\* RangeExecution(count, min) leaves Max zero; RangeExecution(count, min, max)
RangedParserError(err, count, min, max, type) ==
    <<Layer("RangedParserError", type, <<>>, <<>>, count, min, max)>> \o err

CutError(err) == <<Layer("CutError", "cut", <<>>, <<>>, 0, 0, 0)>> \o err

Unwrap(err) == Tail(err)

\* a type assertion on the error itself, which does not follow the Unwrap chain
IsCutShallow(err) == err # NoErr /\ err[1].kind = "CutError"

\* errors.As(err, &cutErr)
IsCut(err) == \E i \in 1..Len(err) : err[i].kind = "CutError"

----------------------------------------------------------------------------
(* Results *)

OutS(x) == [t |-> "string", s |-> x, l |-> <<>>, u |-> 0]
OutL(x) == [t |-> "slice", s |-> <<>>, l |-> x, u |-> 0]
OutU(n) == [t |-> "uint", s |-> <<>>, l |-> <<>>, u |-> n]

\* the zero value of a result type
Zero(t) ==
    CASE t = "string" -> OutS(<<>>)
      [] t = "slice" -> OutL(<<>>)
      [] t = "uint" -> OutU(0)

\* One invocation of sub-parser c on text s that returned r, as recorded by the
\* combinator that made it (a history of the calls, not a value of the program).
Call(c, s, r) == [c |-> c, in |-> s, rem |-> r.rem, err |-> r.err]

\* (rem, out, err) as returned, with the sub-parser invocations made on the way
Res(rem, out, err, sub) == [rem |-> rem, out |-> out, err |-> err, sub |-> sub]

Ok(r) == r.err = NoErr

combine(in, e) ==
    CASE e.t = "string" -> Append(in, e.s)
      [] e.t = "slice" -> in \o e.l
      [] OTHER -> in

----------------------------------------------------------------------------
(* Primitive scanners *)

Tag(str, s) ==
    IF HasPrefix(s, str)
    THEN Res(SliceFrom(s, ByteLen(str)), OutS(str), NoErr, <<>>)
    ELSE Res(s, OutS(<<>>), CombinatorParseError(str, s, "tag"), <<>>)

\* the byte position reached by "for _, c := range s" while the test holds
RECURSIVE ScanWhile(_, _, _)
ScanWhile(p, neg, s) ==
    IF s = <<>> \/ (Match(p, Head(s)) = neg) THEN 0
    ELSE Width(Head(s)) + ScanWhile(p, neg, Tail(s))

WhileN(p, n, s) ==
    LET pos == ScanWhile(p, FALSE, s)
    IN  IF pos < n
        THEN Res(s, OutS(<<>>),
                 RangedParserError(CombinatorParseError(<<>>, s, p), pos, n, 0, "while_n"),
                 <<>>)
        ELSE Res(SliceFrom(s, pos), OutS(SliceTo(s, pos)), NoErr, <<>>)

WhileNM(p, n, m, s) ==
    LET pos == ScanWhile(p, FALSE, s)
    IN  IF pos < n \/ pos > m
        THEN Res(s, OutS(<<>>),
                 RangedParserError(CombinatorParseError(<<>>, s, p), pos, n, m, "while_n_m"),
                 <<>>)
        ELSE Res(SliceFrom(s, pos), OutS(SliceTo(s, pos)), NoErr, <<>>)

\* a WhileNotN that keeps the run it scanned when the run is too short
WhileNotNPartial(p, n, s) ==
    LET pos == ScanWhile(p, TRUE, s)
    IN  IF pos < n
        THEN Res(SliceFrom(s, pos), OutS(SliceTo(s, pos)),
                 RangedParserError(CombinatorParseError(<<>>, s, p), pos, n, 0, "while_not_n"),
                 <<>>)
        ELSE Res(SliceFrom(s, pos), OutS(SliceTo(s, pos)), NoErr, <<>>)

WhileNotN(p, n, s) ==
    LET pos == ScanWhile(p, TRUE, s)
    IN  IF pos < n
        THEN Res(s, OutS(<<>>),
                 RangedParserError(CombinatorParseError(<<>>, s, p), pos, n, 0, "while_not_n"),
                 <<>>)
        ELSE Res(SliceFrom(s, pos), OutS(SliceTo(s, pos)), NoErr, <<>>)

WhileNotNM(p, n, m, s) ==
    LET pos == ScanWhile(p, TRUE, s)
    IN  IF pos < n \/ pos > m
        THEN Res(s, OutS(<<>>),
                 RangedParserError(CombinatorParseError(<<>>, s, p), pos, n, m, "while_not_n_m"),
                 <<>>)
        ELSE Res(SliceFrom(s, pos), OutS(SliceTo(s, pos)), NoErr, <<>>)

\* strings.Index(s, "\n"): the byte offset of the first newline, or -1
RECURSIVE IndexNewline(_)
IndexNewline(s) ==
    IF s = <<>> THEN -1
    ELSE IF Head(s) = "\n" THEN 0
    ELSE LET i == IndexNewline(Tail(s))
         IN  IF i = -1 THEN -1 ELSE Width(Head(s)) + i

\* a Crlf that takes any one-byte character in front of the newline
CrlfAnyBefore(s) ==
    LET idx == IndexNewline(s)
    IN  IF idx = 0 \/ idx = 1
        THEN Res(SliceFrom(s, idx + 1), OutS(SliceTo(s, idx + 1)), NoErr, <<>>)
        ELSE Res(s, OutS(<<>>), CombinatorParseError(<<>>, s, "crlf"), <<>>)

Crlf(s) ==
    LET idx == IndexNewline(s)
    IN  IF idx = 0 \/ (idx = 1 /\ s[1] = "\r")
        THEN Res(SliceFrom(s, idx + 1), OutS(SliceTo(s, idx + 1)), NoErr, <<>>)
        ELSE Res(s, OutS(<<>>), CombinatorParseError(<<>>, s, "crlf"), <<>>)

\* unicode.SimpleFold, on the letters of the model: "A" and "a" fold together
Fold(r) == IF r = "A" THEN "a" ELSE r

\* strings.EqualFold(x, y)
EqualFold(x, y) == Len(x) = Len(y) /\ \A i \in 1..Len(x) : Fold(x[i]) = Fold(y[i])

\* the character r occurs in str ("for _, strc := range str { if r == strc")
Among(r, str) == \E i \in 1..Len(str) : str[i] = r

\* strings.Index(s, str): the byte offset of the first occurrence, or -1
RECURSIVE Index(_, _)
Index(s, str) ==
    IF HasPrefix(s, str) THEN 0
    ELSE IF s = <<>> THEN -1
    ELSE LET i == Index(Tail(s), str)
         IN  IF i = -1 THEN -1 ELSE Width(Head(s)) + i

Char(c, s) ==
    IF s = <<>> THEN Res(s, OutS(<<>>), CombinatorParseError(<<c>>, s, "char"), <<>>)
    ELSE LET size == Width(Head(s))
         IN  IF Head(s) = c
             THEN Res(SliceFrom(s, size), OutS(SliceTo(s, size)), NoErr, <<>>)
             ELSE Res(s, OutS(<<>>), CombinatorParseError(<<c>>, s, "char"), <<>>)

AnyChar(s) ==
    IF Len(s) > 0
    THEN LET matched == <<s[1]>>
         IN  Res(SliceFrom(s, ByteLen(matched)), OutS(matched), NoErr, <<>>)
    ELSE Res(s, OutS(<<>>), CombinatorParseError(<<>>, s, "any_char"), <<>>)

Satisfy(pred, s) ==
    IF Len(s) > 0 /\ Match(pred, s[1])
    THEN LET matched == <<s[1]>>
         IN  Res(SliceFrom(s, ByteLen(matched)), OutS(matched), NoErr, <<>>)
    ELSE Res(s, OutS(<<>>), CombinatorParseError(<<>>, s, "satisfy"), <<>>)

TagNoCase(str, s) ==
    IF ByteLen(s) >= ByteLen(str) /\ EqualFold(SliceTo(s, ByteLen(str)), str)
    THEN Res(SliceFrom(s, ByteLen(str)), OutS(SliceTo(s, ByteLen(str))), NoErr, <<>>)
    ELSE Res(s, OutS(<<>>), CombinatorParseError(str, s, "tag_no_case"), <<>>)

\* the byte position reached by the loop of Any (neg: of Not) over s
RECURSIVE ScanAmong(_, _, _)
ScanAmong(str, neg, s) ==
    IF s = <<>> \/ (Among(Head(s), str) = neg) THEN 0
    ELSE Width(Head(s)) + ScanAmong(str, neg, Tail(s))

Any(str, s) ==
    LET pos == ScanAmong(str, FALSE, s)
    IN  IF pos = 0 THEN Res(s, OutS(<<>>), CombinatorParseError(str, s, "any"), <<>>)
        ELSE Res(SliceFrom(s, pos), OutS(SliceTo(s, pos)), NoErr, <<>>)

Not(str, s) ==
    LET pos == ScanAmong(str, TRUE, s)
    IN  IF pos = 0 THEN Res(s, OutS(<<>>), CombinatorParseError(str, s, "not"), <<>>)
        ELSE Res(SliceFrom(s, pos), OutS(SliceTo(s, pos)), NoErr, <<>>)

OneOf(str, s) ==
    IF s = <<>> THEN Res(s, OutS(<<>>), CombinatorParseError(str, s, "one_of"), <<>>)
    ELSE LET size == Width(Head(s))
         IN  IF Among(Head(s), str)
             THEN Res(SliceFrom(s, size), OutS(SliceTo(s, size)), NoErr, <<>>)
             ELSE Res(s, OutS(<<>>), CombinatorParseError(str, s, "one_of"), <<>>)

NoneOf(str, s) ==
    IF s = <<>> THEN Res(s, OutS(<<>>), CombinatorParseError(str, s, "none_of"), <<>>)
    ELSE LET size == Width(Head(s))
         IN  IF Among(Head(s), str)
             THEN Res(s, OutS(<<>>), CombinatorParseError(str, s, "none_of"), <<>>)
             ELSE Res(SliceFrom(s, size), OutS(SliceTo(s, size)), NoErr, <<>>)

Until(str, s) ==
    LET idx == Index(s, str)
    IN  IF idx # -1 THEN Res(SliceFrom(s, idx), OutS(SliceTo(s, idx)), NoErr, <<>>)
        ELSE Res(s, OutS(<<>>), CombinatorParseError(str, s, "until"), <<>>)

\* a Take that skips n bytes of the input for the n characters it returns
TakeBytes(n, s) ==
    IF Len(s) < n THEN Res(s, OutS(<<>>), CombinatorParseError(<<>>, s, "take"), <<>>)
    ELSE Res(SliceFrom(s, n), OutS(SubSeq(s, 1, n)), NoErr, <<>>)

Take(n, s) ==
    IF Len(s) < n THEN Res(s, OutS(<<>>), CombinatorParseError(<<>>, s, "take"), <<>>)
    ELSE LET taken == SubSeq(s, 1, n)
         IN  Res(SliceFrom(s, ByteLen(taken)), OutS(taken), NoErr, <<>>)

TakeUntil1(str, s) ==
    LET idx == Index(s, str)
    IN  IF idx > 0 THEN Res(SliceFrom(s, idx), OutS(SliceTo(s, idx)), NoErr, <<>>)
        ELSE Res(s, OutS(<<>>), CombinatorParseError(str, s, "take_until_1"), <<>>)

Newline(s) ==
    IF ByteLen(s) > 0 /\ s[1] = "\n"
    THEN Res(SliceFrom(s, 1), OutS(<<"\n">>), NoErr, <<>>)
    ELSE Res(s, OutS(<<>>), CombinatorParseError(<<>>, s, "newline"), <<>>)

Tab(s) ==
    IF ByteLen(s) > 0 /\ s[1] = "\t"
    THEN Res(SliceFrom(s, 1), OutS(<<"\t">>), NoErr, <<>>)
    ELSE Res(s, OutS(<<>>), CombinatorParseError(<<>>, s, "tab"), <<>>)

----------------------------------------------------------------------------
(* Constructed parsers.  A closure returned by a combinator constructor is  *)
(* the term recording the constructor and its arguments: the sub-parsers a, *)
(* a literal str, the counts n and m, and a predicate or mapper name p.     *)

Term(k, a, str, n, m, p) == [k |-> k, a |-> a, str |-> str, n |-> n, m |-> m, p |-> p]

MkTag(str) == Term("Tag", <<>>, str, 0, 0, "")
MkWhileN(p, n) == Term("WhileN", <<>>, <<>>, n, 0, p)
MkWhileNM(p, n, m) == Term("WhileNM", <<>>, <<>>, n, m, p)
MkWhileNotN(p, n) == Term("WhileNotN", <<>>, <<>>, n, 0, p)
MkWhileNotNM(p, n, m) == Term("WhileNotNM", <<>>, <<>>, n, m, p)
MkCrlf == Term("Crlf", <<>>, <<>>, 0, 0, "")
MkEol == Term("Eol", <<>>, <<>>, 0, 0, "")
MkPair(c1, c2) == Term("Pair", <<c1, c2>>, <<>>, 0, 0, "")
MkSepPair(c1, sep, c2) == Term("SepPair", <<c1, sep, c2>>, <<>>, 0, 0, "")
MkRepeat(c, n) == Term("Repeat", <<c>>, <<>>, n, 0, "")
MkRepeatRange(c, n, m) == Term("RepeatRange", <<c>>, <<>>, n, m, "")
MkDelimited(left, str, right) == Term("Delimited", <<left, str, right>>, <<>>, 0, 0, "")
MkFirst(c) == Term("First", c, <<>>, 0, 0, "")
MkAll(c) == Term("All", c, <<>>, 0, 0, "")
MkManyN(c, n) == Term("ManyN", <<c>>, <<>>, n, 0, "")
MkMany(c) == MkManyN(c, 1)
MkPrefixed(c, pre) == Term("Prefixed", <<c, pre>>, <<>>, 0, 0, "")
MkSuffixed(c, suf) == Term("Suffixed", <<c, suf>>, <<>>, 0, 0, "")
MkSeparatedList(c, sep) == Term("SeparatedList", <<c, sep>>, <<>>, 0, 0, "")
MkSeparatedList0(c, sep) == Term("SeparatedList0", <<c, sep>>, <<>>, 0, 0, "")
MkManyTill(c, term) == Term("ManyTill", <<c, term>>, <<>>, 0, 0, "")
MkManyTill0(c, term) == Term("ManyTill0", <<c, term>>, <<>>, 0, 0, "")
MkFoldMany(c, init, reducer) == Term("FoldMany", <<c>>, <<>>, init, 0, reducer)
MkFoldMany0(c, init, reducer) == Term("FoldMany0", <<c>>, <<>>, init, 0, reducer)
MkManyCount(c) == Term("ManyCount", <<c>>, <<>>, 0, 0, "")
MkManyCount0(c) == Term("ManyCount0", <<c>>, <<>>, 0, 0, "")
MkLengthCount(length, c) == Term("LengthCount", <<length, c>>, <<>>, 0, 0, "")
MkCut(c) == Term("Cut", <<c>>, <<>>, 0, 0, "")
MkPeekNot(c) == Term("PeekNot", <<c>>, <<>>, 0, 0, "")
MkMap(c, mapper) == Term("Map", <<c>>, <<>>, 0, 0, mapper)
MkOpt(c) == Term("Opt", <<c>>, <<>>, 0, 0, "")
MkS(c) == Term("S", <<c>>, <<>>, 0, 0, "")
MkPeek(c) == Term("Peek", <<c>>, <<>>, 0, 0, "")
MkChar(c) == Term("Char", <<>>, <<c>>, 0, 0, "")
MkAnyChar == Term("AnyChar", <<>>, <<>>, 0, 0, "")
MkSatisfy(pred) == Term("Satisfy", <<>>, <<>>, 0, 0, pred)
MkTagNoCase(str) == Term("TagNoCase", <<>>, str, 0, 0, "")
MkAny(str) == Term("Any", <<>>, str, 0, 0, "")
MkNot(str) == Term("Not", <<>>, str, 0, 0, "")
MkOneOf(str) == Term("OneOf", <<>>, str, 0, 0, "")
MkNoneOf(str) == Term("NoneOf", <<>>, str, 0, 0, "")
MkUntil(str) == Term("Until", <<>>, str, 0, 0, "")
MkTake(n) == Term("Take", <<>>, <<>>, n, 0, "")
MkTakeUntil1(str) == Term("TakeUntil1", <<>>, str, 0, 0, "")
MkEscaped(normal, escape, escapable) == Term("Escaped", <<normal, escapable>>, <<escape>>, 0, 0, "")
MkEscapedTransform(normal, escape, transform) ==
    Term("EscapedTransform", <<normal, transform>>, <<escape>>, 0, 0, "")
MkNewline == Term("Newline", <<>>, <<>>, 0, 0, "")
MkTab == Term("Tab", <<>>, <<>>, 0, 0, "")
MkAllConsuming(c) == Term("AllConsuming", <<c>>, <<>>, 0, 0, "")
MkRecognize(c) == Term("Recognize", <<c>>, <<>>, 0, 0, "")
MkConsumed(c) == Term("Consumed", <<c>>, <<>>, 0, 0, "")
MkRest == Term("Rest", <<>>, <<>>, 0, 0, "")

\* the result type T of a Combinator[T] (or S of a MappedCombinator[S, T])
RECURSIVE TypeOf(_)
TypeOf(c) ==
    CASE c.k \in {"Tag", "WhileN", "WhileNM", "WhileNotN", "WhileNotNM", "Crlf", "Eol",
                  "Prefixed", "Suffixed", "PeekNot", "Recognize", "Char", "AnyChar",
                  "Satisfy", "TagNoCase", "Any", "Not", "OneOf", "NoneOf", "Until", "Take",
                  "TakeUntil1", "Escaped", "EscapedTransform", "Newline", "Tab",
                  "Rest"} -> "string"
      [] c.k \in {"Pair", "SepPair", "Repeat", "RepeatRange", "All", "ManyN",
                  "SeparatedList", "SeparatedList0", "ManyTill", "ManyTill0",
                  "LengthCount", "S", "Consumed"} -> "slice"
      [] c.k \in {"Map", "FoldMany", "FoldMany0", "ManyCount", "ManyCount0"} -> "uint"
      [] c.k \in {"Opt", "Cut", "First", "Peek", "AllConsuming"} -> TypeOf(c.a[1])
      [] c.k = "Delimited" -> TypeOf(c.a[2])

RECURSIVE Run(_, _)

----------------------------------------------------------------------------
(* Sequencing combinators *)

Pair(c1, c2, s) ==
    LET r1 == Run(c1, s)
        r2 == Run(c2, r1.rem)
    IN  IF ~Ok(r1)
        THEN Res(r1.rem, OutL(<<>>), ParserError(r1.err, "pair"), <<Call(c1, s, r1)>>)
        ELSE IF ~Ok(r2)
        THEN Res(r2.rem, OutL(<<>>), ParserError(r2.err, "pair"),
                 <<Call(c1, s, r1), Call(c2, r1.rem, r2)>>)
        ELSE Res(r2.rem, OutL(combine(combine(<<>>, r1.out), r2.out)), NoErr,
                 <<Call(c1, s, r1), Call(c2, r1.rem, r2)>>)

SepPair(c1, sep, c2, s) ==
    LET r1 == Run(c1, s)
        rs == Run(sep, r1.rem)
        r2 == Run(c2, rs.rem)
        sub1 == <<Call(c1, s, r1)>>
        sub2 == Append(sub1, Call(sep, r1.rem, rs))
        sub3 == Append(sub2, Call(c2, rs.rem, r2))
    IN  IF ~Ok(r1)
        THEN Res(r1.rem, OutL(<<>>), ParserError(r1.err, "sep_pair"), sub1)
        ELSE IF ~Ok(rs)
        THEN Res(rs.rem, OutL(<<>>), ParserError(rs.err, "sep_pair"), sub2)
        ELSE IF ~Ok(r2)
        THEN Res(r2.rem, OutL(<<>>), ParserError(r2.err, "sep_pair"), sub3)
        ELSE Res(r2.rem, OutL(combine(combine(<<>>, r1.out), r2.out)), NoErr, sub3)

\* the loop "for i := range n" of Repeat, from iteration i on
RECURSIVE RepeatLoop(_, _, _, _, _, _)
RepeatLoop(c, n, i, rem, ext, sub) ==
    IF i >= n THEN Res(rem, OutL(ext), NoErr, sub)
    ELSE LET r == Run(c, rem)
             sub1 == Append(sub, Call(c, rem, r))
         IN  IF ~Ok(r)
             THEN Res(r.rem, OutL(<<>>), RangedParserError(r.err, i, n, 0, "repeat"), sub1)
             ELSE RepeatLoop(c, n, i + 1, r.rem, combine(ext, r.out), sub1)

\* a Repeat whose loop counter starts at one
RepeatFromOne(c, n, s) == RepeatLoop(c, n, 1, s, <<>>, <<>>)

Repeat(c, n, s) == RepeatLoop(c, n, 0, s, <<>>, <<>>)

\* The local variables of RepeatRange at the head of its loop "for i := range m".
RangeFrame(s) == [i |-> 0, rem |-> s, ext |-> <<>>, sub |-> <<>>]

\* One pass through RepeatRange's loop from frame f: lim is the value m had
\* when the loop was entered, n and m are the captured variables as read now.
\* Yields the next frame, or (done) what RepeatRange returns.
RepeatRangeBody(c, n, m, lim, f) ==
    LET r == Run(c, f.rem)
        sub1 == Append(f.sub, Call(c, f.rem, r))
        Return(x) == [done |-> TRUE, f |-> f, ret |-> x]
    IN  IF f.i >= lim THEN Return(Res(f.rem, OutL(f.ext), NoErr, f.sub))
        ELSE IF ~Ok(r)
        THEN IF f.i + 1 > n
             THEN Return(Res(r.rem, OutL(f.ext), NoErr, sub1))
             ELSE Return(Res(r.rem, OutL(<<>>),
                             RangedParserError(r.err, f.i, n, m, "repeat_range"), sub1))
        ELSE [done |-> FALSE,
              f |-> [i |-> f.i + 1, rem |-> r.rem, ext |-> combine(f.ext, r.out),
                     sub |-> sub1],
              ret |-> Res(<<>>, OutL(<<>>), NoErr, <<>>)]

RECURSIVE RepeatRangeLoop(_, _, _, _, _)
RepeatRangeLoop(c, n, m, lim, f) ==
    LET t == RepeatRangeBody(c, n, m, lim, f)
    IN  IF t.done THEN t.ret ELSE RepeatRangeLoop(c, n, m, lim, t.f)

\* a RepeatRange that takes its bounds as given, without the swap
RepeatRangeAsGiven(c, n, m, s) == RepeatRangeLoop(c, n, m, m, RangeFrame(s))

\* a single invocation: the swap "n, m = m, n" is seen by this invocation whole
RepeatRange(c, n, m, s) ==
    LET n1 == IF n > m THEN m ELSE n
        m1 == IF n > m THEN n ELSE m
    IN  RepeatRangeLoop(c, n1, m1, m1, RangeFrame(s))

Delimited(left, str, right, s) ==
    LET rl == Run(left, s)
        rs == Run(str, rl.rem)
        rr == Run(right, rs.rem)
        def == Zero(TypeOf(str))
        sub1 == <<Call(left, s, rl)>>
        sub2 == Append(sub1, Call(str, rl.rem, rs))
        sub3 == Append(sub2, Call(right, rs.rem, rr))
    IN  IF ~Ok(rl)
        THEN Res(s, def, ParserError(rl.err, "delimited"), sub1)
        ELSE IF ~Ok(rs)
        THEN Res(rs.rem, def, ParserError(rs.err, "delimited"), sub2)
        ELSE IF ~Ok(rr)
        THEN Res(rr.rem, def, ParserError(rr.err, "delimited"), sub3)
        ELSE Res(rr.rem, rs.out, NoErr, sub3)


\* the loop "for _, comb := range c" of First, from alternative i on
RECURSIVE FirstLoop(_, _, _, _)
FirstLoop(c, s, i, sub) ==
    IF i > Len(c)
    THEN Res(s, Zero(TypeOf(c[1])), CombinatorParseError(<<>>, s, "first"), sub)
    ELSE LET r == Run(c[i], s)
             sub1 == Append(sub, Call(c[i], s, r))
         IN  IF Ok(r) THEN Res(r.rem, r.out, NoErr, sub1)
             ELSE IF IsCut(r.err) THEN Res(s, Zero(TypeOf(c[1])), r.err, sub1)
             ELSE FirstLoop(c, s, i + 1, sub1)

\* First without the CutError check: every failure lets the next alternative run
RECURSIVE FirstBacktrackingLoop(_, _, _, _)
FirstBacktrackingLoop(c, s, i, sub) ==
    IF i > Len(c)
    THEN Res(s, Zero(TypeOf(c[1])), CombinatorParseError(<<>>, s, "first"), sub)
    ELSE LET r == Run(c[i], s)
             sub1 == Append(sub, Call(c[i], s, r))
         IN  IF Ok(r) THEN Res(r.rem, r.out, NoErr, sub1)
             ELSE FirstBacktrackingLoop(c, s, i + 1, sub1)

FirstBacktracking(c, s) == FirstBacktrackingLoop(c, s, 1, <<>>)

\* First giving up at the first alternative that fails
FirstNoAlternation(c, s) ==
    LET r == Run(c[1], s)
    IN  IF Ok(r) THEN Res(r.rem, r.out, NoErr, <<Call(c[1], s, r)>>)
        ELSE IF IsCut(r.err) THEN Res(s, Zero(TypeOf(c[1])), r.err, <<Call(c[1], s, r)>>)
        ELSE Res(s, Zero(TypeOf(c[1])), CombinatorParseError(<<>>, s, "first"),
                 <<Call(c[1], s, r)>>)

First(c, s) == FirstLoop(c, s, 1, <<>>)

\* the loop "for _, comb := range c" of All, from combinator i on
RECURSIVE AllLoop(_, _, _, _, _)
AllLoop(c, i, rem, ext, sub) ==
    IF i > Len(c) THEN Res(rem, OutL(ext), NoErr, sub)
    ELSE LET r == Run(c[i], rem)
             sub1 == Append(sub, Call(c[i], rem, r))
         IN  IF ~Ok(r) THEN Res(r.rem, OutL(<<>>), ParserError(r.err, "all"), sub1)
             ELSE AllLoop(c, i + 1, r.rem, combine(ext, r.out), sub1)

All(c, s) == AllLoop(c, 1, s, <<>>, <<>>)

\* uint arithmetic: count++
Inc(count) == (count + 1) % (2 ^ CountBits)

\* The local variables of a greedy repetition (ManyN, FoldMany, ManyCount and
\* their zero variants) at the head of its "for" loop; brk: the loop was left.
Frame(s, init) ==
    [rem |-> s, ext |-> <<>>, acc |-> init, count |-> 0, err |-> NoErr,
     brk |-> FALSE, sub |-> <<>>]

\* a loop body that assigns the remaining of every call, failed ones included
ManyNStepAdvancing(c, f, r) ==
    LET sub1 == Append(f.sub, Call(c, f.rem, r))
    IN  IF ~Ok(r)
        THEN [f EXCEPT !.rem = r.rem, !.err = r.err, !.brk = TRUE, !.sub = sub1]
        ELSE [f EXCEPT !.rem = r.rem, !.ext = combine(@, r.out), !.count = Inc(@),
                       !.err = NoErr, !.sub = sub1]

\* the body of ManyN's loop after c returned r on the text that remains
ManyNStep(c, f, r) ==
    LET sub1 == Append(f.sub, Call(c, f.rem, r))
    IN  IF ~Ok(r)
        THEN [f EXCEPT !.err = r.err, !.brk = TRUE, !.sub = sub1]
        ELSE [f EXCEPT !.rem = r.rem, !.ext = combine(@, r.out), !.count = Inc(@),
                       !.err = NoErr, !.sub = sub1]

\* one pass through the body of ManyN's loop
ManyNBody(c, f) == ManyNStep(c, f, Run(c, f.rem))

RECURSIVE ManyNLoop(_, _)
ManyNLoop(c, f) ==
    LET g == ManyNBody(c, f) IN IF g.brk THEN g ELSE ManyNLoop(c, g)

\* what ManyN returns once its loop was left with frame f
ManyNReturn(n, f) ==
    IF f.count < n
    THEN Res(f.rem, OutL(<<>>), RangedParserError(f.err, f.count, n, 0, "many_n"), f.sub)
    ELSE Res(f.rem, OutL(f.ext), NoErr, f.sub)

ManyN(c, n, s) == ManyNReturn(n, ManyNLoop(c, Frame(s, 0)))

Prefixed(c, pre, s) ==
    LET rp == Run(pre, s)
        rc == Run(c, rp.rem)
    IN  IF ~Ok(rp) THEN Res(rp.rem, OutS(<<>>), rp.err, <<Call(pre, s, rp)>>)
        ELSE Res(rc.rem, rc.out, rc.err, <<Call(pre, s, rp), Call(c, rp.rem, rc)>>)

Suffixed(c, suf, s) ==
    LET rc == Run(c, s)
        rs == Run(suf, rc.rem)
    IN  IF ~Ok(rc) THEN Res(rc.rem, OutS(<<>>), rc.err, <<Call(c, s, rc)>>)
        ELSE IF ~Ok(rs)
        THEN Res(rs.rem, OutS(<<>>), rs.err, <<Call(c, s, rc), Call(suf, rc.rem, rs)>>)
        ELSE Res(rs.rem, rc.out, NoErr, <<Call(c, s, rc), Call(suf, rc.rem, rs)>>)

\* a loop that keeps a separator consumed when no element follows it
RECURSIVE SeparatedLoopTrailing(_, _, _, _, _)
SeparatedLoopTrailing(c, sep, rem, ext, sub) ==
    LET rs == Run(sep, rem)
        rc == Run(c, rs.rem)
        sub1 == Append(sub, Call(sep, rem, rs))
        sub2 == Append(sub1, Call(c, rs.rem, rc))
    IN  IF ~Ok(rs) THEN Res(rem, OutL(ext), NoErr, sub1)
        ELSE IF ~Ok(rc) THEN Res(rs.rem, OutL(ext), NoErr, sub2)
        ELSE SeparatedLoopTrailing(c, sep, rc.rem, combine(ext, rc.out), sub2)

\* the loop "for { sep; c }" of SeparatedList and SeparatedList0
\* the loop over (sep, element) pairs shared by SeparatedList and SeparatedList0
RECURSIVE SeparatedLoop(_, _, _, _, _)
SeparatedLoop(c, sep, rem, ext, sub) ==
    LET rs == Run(sep, rem)
        rc == Run(c, rs.rem)
        sub1 == Append(sub, Call(sep, rem, rs))
        sub2 == Append(sub1, Call(c, rs.rem, rc))
    IN  IF ~Ok(rs) THEN Res(rem, OutL(ext), NoErr, sub1)
        ELSE IF ~Ok(rc) THEN Res(rem, OutL(ext), NoErr, sub2)
        ELSE SeparatedLoop(c, sep, rc.rem, combine(ext, rc.out), sub2)

SeparatedList(c, sep, s) ==
    LET r == Run(c, s)
    IN  IF ~Ok(r)
        THEN Res(r.rem, OutL(<<>>), RangedParserError(r.err, 0, 1, 0, "separated_list"),
                 <<Call(c, s, r)>>)
        ELSE SeparatedLoop(c, sep, r.rem, combine(<<>>, r.out), <<Call(c, s, r)>>)

SeparatedList0(c, sep, s) ==
    LET r == Run(c, s)
    IN  IF ~Ok(r) THEN Res(s, OutL(<<>>), NoErr, <<Call(c, s, r)>>)
        ELSE SeparatedLoop(c, sep, r.rem, combine(<<>>, r.out), <<Call(c, s, r)>>)

\* a loop that stops in front of the terminator and accepts zero elements
RECURSIVE ManyTillLoopBefore(_, _, _, _, _, _, _)
ManyTillLoopBefore(c, term, s, rem, ext, count, sub) ==
    LET rt == Run(term, rem)
        rc == Run(c, rem)
        sub1 == Append(sub, Call(term, rem, rt))
        sub2 == Append(sub1, Call(c, rem, rc))
    IN  IF Ok(rt) THEN Res(rem, OutL(ext), NoErr, sub1)
        ELSE IF ~Ok(rc)
        THEN Res(rem, OutL(<<>>), ParserError(rc.err, "many_till"), sub2)
        ELSE ManyTillLoopBefore(c, term, s, rc.rem, combine(ext, rc.out), Inc(count), sub2)

\* the loop of ManyTill, with count elements collected so far
RECURSIVE ManyTillLoop(_, _, _, _, _, _, _)
ManyTillLoop(c, term, s, rem, ext, count, sub) ==
    LET rt == Run(term, rem)
        rc == Run(c, rem)
        sub1 == Append(sub, Call(term, rem, rt))
        sub2 == Append(sub1, Call(c, rem, rc))
    IN  IF Ok(rt)
        THEN IF count = 0
             THEN Res(rem, OutL(<<>>),
                      RangedParserError(CombinatorParseError(<<>>, s, "many_till"),
                                        0, 1, 0, "many_till"), sub1)
             ELSE Res(rt.rem, OutL(ext), NoErr, sub1)
        ELSE IF ~Ok(rc)
        THEN Res(rem, OutL(<<>>), ParserError(rc.err, "many_till"), sub2)
        ELSE ManyTillLoop(c, term, s, rc.rem, combine(ext, rc.out), Inc(count), sub2)

ManyTill(c, term, s) == ManyTillLoop(c, term, s, s, <<>>, 0, <<>>)

\* a loop that tries the element before the terminator
RECURSIVE ManyTill0LoopElementFirst(_, _, _, _, _)
ManyTill0LoopElementFirst(c, term, rem, ext, sub) ==
    LET rc == Run(c, rem)
        rt == Run(term, rem)
        sub1 == Append(sub, Call(c, rem, rc))
        sub2 == Append(sub1, Call(term, rem, rt))
    IN  IF Ok(rc) THEN ManyTill0LoopElementFirst(c, term, rc.rem, combine(ext, rc.out), sub1)
        ELSE IF Ok(rt) THEN Res(rt.rem, OutL(ext), NoErr, sub2)
        ELSE Res(rem, OutL(<<>>), ParserError(rc.err, "many_till_0"), sub2)

\* the loop of ManyTill0
RECURSIVE ManyTill0Loop(_, _, _, _, _)
ManyTill0Loop(c, term, rem, ext, sub) ==
    LET rt == Run(term, rem)
        rc == Run(c, rem)
        sub1 == Append(sub, Call(term, rem, rt))
        sub2 == Append(sub1, Call(c, rem, rc))
    IN  IF Ok(rt) THEN Res(rt.rem, OutL(ext), NoErr, sub1)
        ELSE IF ~Ok(rc)
        THEN Res(rem, OutL(<<>>), ParserError(rc.err, "many_till_0"), sub2)
        ELSE ManyTill0Loop(c, term, rc.rem, combine(ext, rc.out), sub2)

ManyTill0(c, term, s) == ManyTill0Loop(c, term, s, <<>>, <<>>)


\* a caller-supplied reducer func(S, T) S, by name
Reduce(reducer, acc, out) ==
    CASE reducer = "sum_len" -> acc + ByteLen(out.s)

\* the body of the loop of FoldMany and FoldMany0 after c returned r on the text that remains
FoldManyStep(c, reducer, f, r) ==
    LET sub1 == Append(f.sub, Call(c, f.rem, r))
    IN  IF ~Ok(r)
        THEN [f EXCEPT !.err = r.err, !.brk = TRUE, !.sub = sub1]
        ELSE [f EXCEPT !.rem = r.rem, !.acc = Reduce(reducer, @, r.out), !.count = Inc(@),
                       !.err = NoErr, !.sub = sub1]

\* one pass through the body of the loop of FoldMany and FoldMany0
FoldManyBody(c, reducer, f) == FoldManyStep(c, reducer, f, Run(c, f.rem))

\* a fold that leaves its loop after the first pass
FoldManyOnce(c, reducer, f) == [FoldManyBody(c, reducer, f) EXCEPT !.brk = TRUE]

RECURSIVE FoldManyLoop(_, _, _)
FoldManyLoop(c, reducer, f) ==
    LET g == FoldManyBody(c, reducer, f) IN IF g.brk THEN g ELSE FoldManyLoop(c, reducer, g)

FoldManyReturn(init, f) ==
    IF f.count = 0
    THEN Res(f.rem, OutU(init), RangedParserError(f.err, 0, 1, 0, "fold_many"), f.sub)
    ELSE Res(f.rem, OutU(f.acc), NoErr, f.sub)

FoldMany(c, init, reducer, s) == FoldManyReturn(init, FoldManyLoop(c, reducer, Frame(s, init)))

FoldMany0Return(f) == Res(f.rem, OutU(f.acc), NoErr, f.sub)

FoldMany0(c, init, reducer, s) == FoldMany0Return(FoldManyLoop(c, reducer, Frame(s, init)))

\* the body of the loop of ManyCount and ManyCount0 after c returned r on the text that remains
ManyCountStep(c, f, r) ==
    LET sub1 == Append(f.sub, Call(c, f.rem, r))
    IN  IF ~Ok(r)
        THEN [f EXCEPT !.err = r.err, !.brk = TRUE, !.sub = sub1]
        ELSE [f EXCEPT !.rem = r.rem, !.count = Inc(@), !.err = NoErr, !.sub = sub1]

\* one pass through the body of the loop of ManyCount and ManyCount0
ManyCountBody(c, f) == ManyCountStep(c, f, Run(c, f.rem))

RECURSIVE ManyCountLoop(_, _)
ManyCountLoop(c, f) ==
    LET g == ManyCountBody(c, f) IN IF g.brk THEN g ELSE ManyCountLoop(c, g)

ManyCountReturn(f) ==
    IF f.count = 0
    THEN Res(f.rem, OutU(0), RangedParserError(f.err, 0, 1, 0, "many_count"), f.sub)
    ELSE Res(f.rem, OutU(f.count), NoErr, f.sub)

ManyCount(c, s) == ManyCountReturn(ManyCountLoop(c, Frame(s, 0)))

ManyCount0Return(f) == Res(f.rem, OutU(f.count), NoErr, f.sub)

ManyCount0(c, s) == ManyCount0Return(ManyCountLoop(c, Frame(s, 0)))

LengthCount(length, c, s) ==
    LET rl == Run(length, s)
        rr == Repeat(c, rl.out.u, rl.rem)
    IN  IF ~Ok(rl)
        THEN Res(rl.rem, OutL(<<>>), ParserError(rl.err, "length_count"),
                 <<Call(length, s, rl)>>)
        ELSE Res(rr.rem, rr.out, rr.err, <<Call(length, s, rl)>> \o rr.sub)

\* a Cut that hands on the remaining text c returned with its error
CutLeaking(c, s) ==
    LET r == Run(c, s)
    IN  IF ~Ok(r) THEN Res(r.rem, Zero(TypeOf(c)), CutError(r.err), <<Call(c, s, r)>>)
        ELSE Res(r.rem, r.out, NoErr, <<Call(c, s, r)>>)

Cut(c, s) ==
    LET r == Run(c, s)
    IN  IF ~Ok(r) THEN Res(s, Zero(TypeOf(c)), CutError(r.err), <<Call(c, s, r)>>)
        ELSE Res(r.rem, r.out, NoErr, <<Call(c, s, r)>>)

PeekNot(c, s) ==
    LET r == Run(c, s)
    IN  IF Ok(r)
        THEN Res(s, OutS(<<>>), CombinatorParseError(<<>>, s, "peek_not"), <<Call(c, s, r)>>)
        ELSE Res(s, OutS(<<>>), NoErr, <<Call(c, s, r)>>)

\* The loop "for rem != \"\"" of Escaped, with pos bytes matched so far: the
\* position reached, and the calls made.
RECURSIVE EscapedLoop(_, _, _, _, _, _)
EscapedLoop(normal, escape, escapable, rem, pos, sub) ==
    LET rn == Run(normal, rem)
        sub1 == Append(sub, Call(normal, rem, rn))
        escLen == Width(escape)
        after == SliceFrom(rem, escLen)
        re == Run(escapable, after)
        sub2 == Append(sub1, Call(escapable, after, re))
    IN  IF rem = <<>> THEN [pos |-> pos, sub |-> sub]
        ELSE IF Ok(rn) /\ rn.out.s # <<>>
        THEN EscapedLoop(normal, escape, escapable, rn.rem, pos + ByteLen(rn.out.s), sub1)
        ELSE IF Head(rem) # escape \/ ByteLen(rem) <= escLen
        THEN [pos |-> pos, sub |-> sub1]
        ELSE IF Ok(re) /\ re.out.s # <<>>
        THEN EscapedLoop(normal, escape, escapable,
                         SliceFrom(rem, escLen + ByteLen(re.out.s)),
                         pos + escLen + ByteLen(re.out.s), sub2)
        ELSE [pos |-> pos, sub |-> sub2]

\* an Escaped that also takes an escape character left in front of the
\* remaining text
EscapedLoneEscape(normal, escape, escapable, s) ==
    LET e == EscapedLoop(normal, escape, escapable, s, 0, <<>>)
        rest == SliceFrom(s, e.pos)
        pos == IF rest # <<>> /\ Head(rest) = escape THEN e.pos + Width(escape) ELSE e.pos
    IN  IF pos = 0
        THEN Res(s, OutS(<<>>), CombinatorParseError(<<>>, s, "escaped"), e.sub)
        ELSE Res(SliceFrom(s, pos), OutS(SliceTo(s, pos)), NoErr, e.sub)

Escaped(normal, escape, escapable, s) ==
    LET e == EscapedLoop(normal, escape, escapable, s, 0, <<>>)
    IN  IF e.pos = 0
        THEN Res(s, OutS(<<>>), CombinatorParseError(<<>>, s, "escaped"), e.sub)
        ELSE Res(SliceFrom(s, e.pos), OutS(SliceTo(s, e.pos)), NoErr, e.sub)

\* The loop of EscapedTransform, with the text built so far: the text left,
\* the text built, and the calls made.
RECURSIVE EscapedTransformLoop(_, _, _, _, _, _)
EscapedTransformLoop(normal, escape, transform, rem, built, sub) ==
    LET rn == Run(normal, rem)
        sub1 == Append(sub, Call(normal, rem, rn))
        escLen == Width(escape)
        after == SliceFrom(rem, escLen)
        rt == Run(transform, after)
        sub2 == Append(sub1, Call(transform, after, rt))
    IN  IF rem = <<>> THEN [rem |-> rem, built |-> built, sub |-> sub]
        ELSE IF Ok(rn) /\ rn.out.s # <<>>
        THEN EscapedTransformLoop(normal, escape, transform, rn.rem, built \o rn.out.s, sub1)
        ELSE IF Head(rem) # escape \/ ByteLen(rem) <= escLen
        THEN [rem |-> rem, built |-> built, sub |-> sub1]
        ELSE IF Ok(rt) /\ rt.out.s # <<>>
        THEN EscapedTransformLoop(normal, escape, transform, rt.rem, built \o rt.out.s, sub2)
        ELSE [rem |-> rem, built |-> built, sub |-> sub2]

EscapedTransform(normal, escape, transform, s) ==
    LET e == EscapedTransformLoop(normal, escape, transform, s, <<>>, <<>>)
    IN  IF ByteLen(e.built) = 0
        THEN Res(s, OutS(<<>>), CombinatorParseError(<<>>, s, "escaped_transform"), e.sub)
        ELSE Res(e.rem, OutS(e.built), NoErr, e.sub)

\* an AllConsuming that hands on what c returned when text is left over
AllConsumingLenient(c, s) ==
    LET r == Run(c, s)
    IN  IF ~Ok(r) THEN Res(s, Zero(TypeOf(c)), r.err, <<Call(c, s, r)>>)
        ELSE Res(r.rem, r.out, NoErr, <<Call(c, s, r)>>)

AllConsuming(c, s) ==
    LET r == Run(c, s)
        def == Zero(TypeOf(c))
    IN  IF ~Ok(r) THEN Res(s, def, r.err, <<Call(c, s, r)>>)
        ELSE IF r.rem # <<>>
        THEN Res(s, def, CombinatorParseError(r.rem, s, "all_consuming"), <<Call(c, s, r)>>)
        ELSE Res(r.rem, r.out, NoErr, <<Call(c, s, r)>>)

\* a Recognize that returns the match of c, flattened, instead of the text consumed
RecognizeOutput(c, s) ==
    LET r == Run(c, s)
        Flat(l) == IF l = <<>> THEN <<>> ELSE l[1]
    IN  IF ~Ok(r) THEN Res(s, OutS(<<>>), r.err, <<Call(c, s, r)>>)
        ELSE Res(r.rem, OutS(IF r.out.t = "string" THEN r.out.s ELSE Flat(r.out.l)), NoErr,
                 <<Call(c, s, r)>>)

\* a Recognize that returns its two strings the wrong way round
RecognizeSwapped(c, s) ==
    LET r == Run(c, s)
        consumed == SliceTo(s, ByteLen(s) - ByteLen(r.rem))
    IN  IF ~Ok(r) THEN Res(s, OutS(<<>>), r.err, <<Call(c, s, r)>>)
        ELSE Res(consumed, OutS(r.rem), NoErr, <<Call(c, s, r)>>)

Recognize(c, s) ==
    LET r == Run(c, s)
        consumed == SliceTo(s, ByteLen(s) - ByteLen(r.rem))
    IN  IF ~Ok(r) THEN Res(s, OutS(<<>>), r.err, <<Call(c, s, r)>>)
        ELSE Res(r.rem, OutS(consumed), NoErr, <<Call(c, s, r)>>)

Consumed(c, s) ==
    LET r == Run(c, s)
        consumed == SliceTo(s, ByteLen(s) - ByteLen(r.rem))
    IN  IF ~Ok(r) THEN Res(s, OutL(<<>>), r.err, <<Call(c, s, r)>>)
        ELSE Res(r.rem, OutL(combine(<<consumed>>, r.out)), NoErr, <<Call(c, s, r)>>)

Rest(s) == Res(<<>>, OutS(s), NoErr, <<>>)

----------------------------------------------------------------------------
(* Modifiers *)

\* a caller-supplied mapper func(in T) S, by name
Mapper(mapper, out) ==
    CASE mapper = "len" -> OutU(ByteLen(out.s))

Map(c, mapper, s) ==
    LET r == Run(c, s)
    IN  IF ~Ok(r) THEN Res(r.rem, OutU(0), r.err, <<Call(c, s, r)>>)
        ELSE Res(r.rem, Mapper(mapper, r.out), NoErr, <<Call(c, s, r)>>)

\* an Opt that swallows only the errors First would backtrack over
OptKeepingCut(c, s) ==
    LET r == Run(c, s)
    IN  Res(r.rem, r.out, IF IsCut(r.err) THEN r.err ELSE NoErr, <<Call(c, s, r)>>)

Opt(c, s) ==
    LET r == Run(c, s)
    IN  Res(r.rem, r.out, NoErr, <<Call(c, s, r)>>)

S(c, s) ==
    LET r == Run(c, s)
    IN  IF ~Ok(r) THEN Res(r.rem, OutL(<<>>), r.err, <<Call(c, s, r)>>)
        ELSE Res(r.rem, OutL(<<r.out.s>>), NoErr, <<Call(c, s, r)>>)

----------------------------------------------------------------------------
(* Line endings *)

\* a Peek that returns the remaining text of c
PeekAdvancing(c, s) ==
    LET r == Run(c, s)
    IN  Res(r.rem, r.out, r.err, <<Call(c, s, r)>>)

Peek(c, s) ==
    LET r == Run(c, s)
    IN  Res(s, r.out, r.err, <<Call(c, s, r)>>)

\* an Eol that requires the line ending
EolStrict(s) == Run(MkSuffixed(MkWhileNotN("is_line_ending", 0), MkCrlf), s)

Eol(s) == Run(MkSuffixed(MkWhileNotN("is_line_ending", 0), MkOpt(MkCrlf)), s)

----------------------------------------------------------------------------
(* Invoking a constructed parser c on the text s *)

Run(c, s) ==
    CASE c.k = "Tag" -> Tag(c.str, s)
      [] c.k = "WhileN" -> WhileN(c.p, c.n, s)
      [] c.k = "WhileNM" -> WhileNM(c.p, c.n, c.m, s)
      [] c.k = "WhileNotN" -> WhileNotN(c.p, c.n, s)
      [] c.k = "WhileNotNM" -> WhileNotNM(c.p, c.n, c.m, s)
      [] c.k = "Crlf" -> Crlf(s)
      [] c.k = "Eol" -> Eol(s)
      [] c.k = "Pair" -> Pair(c.a[1], c.a[2], s)
      [] c.k = "SepPair" -> SepPair(c.a[1], c.a[2], c.a[3], s)
      [] c.k = "Repeat" -> Repeat(c.a[1], c.n, s)
      [] c.k = "RepeatRange" -> RepeatRange(c.a[1], c.n, c.m, s)
      [] c.k = "Delimited" -> Delimited(c.a[1], c.a[2], c.a[3], s)
      [] c.k = "First" -> First(c.a, s)
      [] c.k = "All" -> All(c.a, s)
      [] c.k = "ManyN" -> ManyN(c.a[1], c.n, s)
      [] c.k = "Prefixed" -> Prefixed(c.a[1], c.a[2], s)
      [] c.k = "Suffixed" -> Suffixed(c.a[1], c.a[2], s)
      [] c.k = "SeparatedList" -> SeparatedList(c.a[1], c.a[2], s)
      [] c.k = "SeparatedList0" -> SeparatedList0(c.a[1], c.a[2], s)
      [] c.k = "ManyTill" -> ManyTill(c.a[1], c.a[2], s)
      [] c.k = "ManyTill0" -> ManyTill0(c.a[1], c.a[2], s)
      [] c.k = "FoldMany" -> FoldMany(c.a[1], c.n, c.p, s)
      [] c.k = "FoldMany0" -> FoldMany0(c.a[1], c.n, c.p, s)
      [] c.k = "ManyCount" -> ManyCount(c.a[1], s)
      [] c.k = "ManyCount0" -> ManyCount0(c.a[1], s)
      [] c.k = "LengthCount" -> LengthCount(c.a[1], c.a[2], s)
      [] c.k = "Cut" -> Cut(c.a[1], s)
      [] c.k = "PeekNot" -> PeekNot(c.a[1], s)
      [] c.k = "Map" -> Map(c.a[1], c.p, s)
      [] c.k = "Opt" -> Opt(c.a[1], s)
      [] c.k = "S" -> S(c.a[1], s)
      [] c.k = "Peek" -> Peek(c.a[1], s)
      [] c.k = "Char" -> Char(c.str[1], s)
      [] c.k = "AnyChar" -> AnyChar(s)
      [] c.k = "Satisfy" -> Satisfy(c.p, s)
      [] c.k = "TagNoCase" -> TagNoCase(c.str, s)
      [] c.k = "Any" -> Any(c.str, s)
      [] c.k = "Not" -> Not(c.str, s)
      [] c.k = "OneOf" -> OneOf(c.str, s)
      [] c.k = "NoneOf" -> NoneOf(c.str, s)
      [] c.k = "Until" -> Until(c.str, s)
      [] c.k = "Take" -> Take(c.n, s)
      [] c.k = "TakeUntil1" -> TakeUntil1(c.str, s)
      [] c.k = "Escaped" -> Escaped(c.a[1], c.str[1], c.a[2], s)
      [] c.k = "EscapedTransform" -> EscapedTransform(c.a[1], c.str[1], c.a[2], s)
      [] c.k = "Newline" -> Newline(s)
      [] c.k = "Tab" -> Tab(s)
      [] c.k = "AllConsuming" -> AllConsuming(c.a[1], s)
      [] c.k = "Recognize" -> Recognize(c.a[1], s)
      [] c.k = "Consumed" -> Consumed(c.a[1], s)
      [] c.k = "Rest" -> Rest(s)

----------------------------------------------------------------------------
(* The parsers and inputs the model is checked on *)

Counts == 0..MaxCount

TagA == MkTag(<<"a">>)
Tag1 == MkTag(<<"1">>)
Alpha == MkWhileN("is_letter", 1)

\* element parsers: each consumes at least one character when it succeeds
Elem == {TagA, Tag1, Alpha}

\* the predicate-run scanners
Runs ==
    LET P == {"is_letter", "is_digit"}
    IN  {MkWhileN(p, n) : p \in P, n \in Counts}
        \cup {MkWhileNotN(p, n) : p \in P, n \in Counts}
        \cup {MkWhileNM(p, n, m) : p \in P, n \in Counts, m \in Counts}
        \cup {MkWhileNotNM(p, n, m) : p \in P, n \in Counts, m \in Counts}

Primitives == Elem \cup Runs

\* sub-parsers of a sequence: an element, a committed element, or a composite
\* that may fail after its first part matched
Committed == {MkCut(e) : e \in Elem}
Inner == Elem \cup Committed \cup {MkPair(TagA, Tag1), MkPair(Alpha, Tag1)}

Digits == MkMap(MkWhileN("is_digit", 1), "len")

Sequences ==
    {MkPair(c1, c2) : c1 \in Elem, c2 \in Elem \cup Committed}
    \cup {MkSepPair(c1, sep, c2) : c1 \in Elem, sep \in {Tag1}, c2 \in Elem}
    \cup {MkAll(<<c1, c2>>) : c1 \in Elem, c2 \in Elem \cup Committed}
    \cup {MkAll(<<c1, c2, c3>>) : c1 \in {TagA}, c2 \in Elem, c3 \in Elem}
    \cup {MkDelimited(l, c, r) : l \in {TagA, Tag1}, c \in Elem, r \in {TagA, Tag1}}
    \cup {MkPrefixed(c, pre) : c \in Elem \cup Committed, pre \in Elem}
    \cup {MkSuffixed(c, suf) : c \in Elem, suf \in Elem}
    \cup {MkLengthCount(Digits, c) : c \in Inner}

Repetitions ==
    {MkRepeat(c, n) : c \in Inner, n \in Counts}
    \cup {MkRepeatRange(c, n, m) : c \in Inner, n \in Counts, m \in Counts}
    \cup {MkManyN(c, n) : c \in Inner, n \in Counts}
    \cup {MkSeparatedList(c, sep) : c \in Inner, sep \in Elem \cup Committed}
    \cup {MkSeparatedList0(c, sep) : c \in Inner, sep \in Elem \cup Committed}
    \cup {MkManyTill(c, term) : c \in Inner, term \in Elem \cup Committed}
    \cup {MkManyTill0(c, term) : c \in Inner, term \in Elem \cup Committed}
    \cup {MkManyTill(MkFirst(<<MkTag(<<"u">>), TagA>>), TagA),
          MkManyTill0(MkFirst(<<MkTag(<<"u">>), TagA>>), TagA)}
    \cup {MkFoldMany(c, init, "sum_len") : c \in Elem \cup Committed, init \in Counts}
    \cup {MkFoldMany0(c, init, "sum_len") : c \in Elem \cup Committed, init \in Counts}
    \cup {MkManyCount(c) : c \in Inner}
    \cup {MkManyCount0(c) : c \in Inner}

\* parsers whose match is not the text they consumed
Wrapped ==
    {MkOpt(MkPair(c1, c2)) : c1 \in Elem, c2 \in Elem}
    \cup {MkPeek(c) : c \in Elem}
    \cup {MkManyN(c, n) : c \in Elem, n \in Counts}
    \cup {MkDelimited(l, c, r) : l \in {TagA}, c \in Elem, r \in {Tag1}}
    \cup {MkManyTill(c, term) : c \in {TagA, Alpha}, term \in {Tag1}}
    \cup {MkRepeatRange(MkPair(TagA, Tag1), 0, m) : m \in Counts}
    \cup {Digits}

Modifiers ==
    {MkOpt(c) : c \in Inner \cup Sequences}
    \cup {MkPeekNot(c) : c \in Inner}
    \cup {MkCut(c) : c \in Inner}
    \cup {MkPeek(c) : c \in Inner \cup Sequences}
    \cup {MkAllConsuming(c) : c \in Inner \cup Sequences}
    \cup {MkRecognize(c) : c \in Inner \cup Sequences \cup Wrapped}

\* alternatives of a First, all of result type string: an element, a committed
\* element, or a prefix followed by a committed element ("if" then Cut("("))
Commits == {MkPrefixed(MkCut(c), pre) : c \in {TagA, Tag1}, pre \in {TagA, Tag1}}
Alts == Elem \cup Committed \cup Commits
        \cup {MkTag(<<"a", "1">>), MkOpt(MkCut(TagA)), MkDelimited(TagA, MkCut(Tag1), TagA)}

Choices ==
    {MkFirst(<<c1>>) : c1 \in Alts}
    \cup {MkFirst(<<c1, c2>>) : c1 \in Alts, c2 \in Alts}
    \cup {MkFirst(<<c1, c2, c3>>) : c1 \in Elem, c2 \in Commits, c3 \in Elem}

\* a First as an alternative of a First, directly or inside a Prefixed
\* or inside a Pair
NestedChoices ==
    LET In == {MkFirst(<<c1, c2>>) : c1 \in {TagA, Tag1} \cup Commits, c2 \in {Tag1, Alpha}}
    IN  {MkFirst(<<c1, c2>>) : c1 \in In, c2 \in Elem \cup {MkTag(<<"a", "1">>)}}
        \cup {MkFirst(<<MkPrefixed(c1, pre), c2>>) :
                 c1 \in In, pre \in {TagA}, c2 \in {Alpha, MkTag(<<"a", "a">>)}}
        \cup {MkFirst(<<MkPair(pre, c1), MkS(c2)>>) :
                 c1 \in In, pre \in {TagA}, c2 \in {Alpha, MkTag(<<"a", "a">>)}}

\* Rest, alone, as the last part of a sequence, and the text a parser consumed
Captures ==
    {MkRest}
    \cup {MkPair(c, MkRest) : c \in Elem \cup Committed}
    \cup {MkRecognize(MkPair(c, MkRest)) : c \in Elem}
    \cup {MkConsumed(c) : c \in Inner \cup Sequences \cup Wrapped}
    \cup {MkConsumed(MkPair(c, MkRest)) : c \in Elem}

Parsers == Primitives \cup Sequences \cup Repetitions \cup Modifiers \cup Choices
           \cup NestedChoices \cup Captures

----------------------------------------------------------------------------
(* Spec: a constructed parser is invoked on any text, returns, and can be    *)
(* invoked again                                                            *)

NoLoop == [pc |-> "idle"]
NoShared == [n |-> 0, m |-> 0]
NoGor == <<>>

NoResult == Res(<<>>, Zero("string"), NoErr, <<>>)

Init ==
    /\ parser \in Parsers
    /\ input = <<>>
    /\ result = NoResult
    /\ phase = "built"
    /\ loop = NoLoop
    /\ shared = NoShared
    /\ gor = NoGor

Invoke(s) ==
    /\ phase = "built"
    /\ input' = s
    /\ result' = Run(parser, s)
    /\ phase' = "returned"
    /\ UNCHANGED <<parser, loop, shared, gor>>

\* the caller is done with the result; the parser value stays as constructed
Reuse ==
    /\ phase = "returned"
    /\ input' = <<>>
    /\ result' = NoResult
    /\ phase' = "built"
    /\ UNCHANGED <<parser, loop, shared, gor>>

Next == (\E s \in Inputs : Invoke(s)) \/ Reuse

Spec == Init /\ [][Next]_vars

----------------------------------------------------------------------------
(* Properties checked under Spec *)

Returned == phase = "returned"

\* what alternative i of the First under invocation returns on the input
Alt(i) == Run(parser.a[i], input)

\* the unwrap chain of err holds a CutError
RECURSIVE Fatal(_)
Fatal(err) == err # NoErr /\ (Head(err).kind = "CutError" \/ Fatal(Unwrap(err)))

\* alternative i fails without a CutError
NonFatal(i) == ~Ok(Alt(i)) /\ ~Fatal(Alt(i).err)

\* the first i calls made were of alternatives 1..i, each on the whole input
TriedExactly(i) ==
    /\ Len(result.sub) = i
    /\ \A j \in 1..i : result.sub[j].c = parser.a[j] /\ result.sub[j].in = input

SeqKinds ==
    {"Pair", "SepPair", "All", "Repeat", "RepeatRange", "ManyN", "Delimited",
     "Prefixed", "Suffixed", "ManyTill", "LengthCount"}

\* C1: every failing call of a sequencing combinator returns a remaining text
\* equal to the input it was called with, also when an earlier sub-parser
\* consumed text before a later one failed.
C1_FailureRestoresInput ==
    (Returned /\ parser.k \in SeqKinds /\ ~Ok(result)) => result.rem = input

\* C2: Opt(c) returns the original input as remaining and an empty/default
\* match whenever c fails, for every c.
C2_OptRestoresInput ==
    (Returned /\ parser.k = "Opt" /\ result.sub[1].err # NoErr)
        => /\ Ok(result)
           /\ result.rem = input
           /\ result.out = Zero(TypeOf(parser))

\* C3: when alternative i of a First returns an error whose unwrap chain holds
\* a CutError and every earlier alternative failed without one, First returns
\* that error with remaining equal to its input, and alternatives i+1.. are
\* never invoked.
C3_CutStopsFirst ==
    (Returned /\ parser.k = "First")
        => \A i \in 1..Len(parser.a) :
              (Fatal(Alt(i).err) /\ \A j \in 1..(i - 1) : NonFatal(j))
                  => /\ result.err = Alt(i).err
                     /\ result.rem = input
                     /\ TriedExactly(i)

\* a First whose second alternative failed fatally after the first failed
\* non-fatally, while its third alternative would have succeeded
C3_Witness ==
    /\ Returned /\ parser.k = "First" /\ Len(parser.a) = 3
    /\ NonFatal(1) /\ Fatal(Alt(2).err) /\ Ok(Alt(3))
    /\ Fatal(result.err) /\ Len(result.sub) = 2

RecoveringKinds ==
    {"Opt", "PeekNot", "ManyN", "RepeatRange", "SeparatedList", "SeparatedList0",
     "ManyTill", "ManyTill0", "FoldMany0", "ManyCount0"}

\* C4: no combinator turns a fatal failure of a sub-parser into a success:
\* whenever a sub-parser it invoked returned an error containing a CutError,
\* the enclosing combinator returns an error containing a CutError too.
C4_FatalNeverRecovered ==
    (Returned /\ parser.k \in RecoveringKinds
       /\ \E i \in 1..Len(result.sub) : Fatal(result.sub[i].err))
        => Fatal(result.err)


\* the number of leading characters of s for which the test of predicate p
\* holds (neg: does not hold)
RECURSIVE RunLength(_, _, _)
RunLength(p, neg, s) ==
    IF s = <<>> \/ (Match(p, Head(s)) = neg) THEN 0
    ELSE 1 + RunLength(p, neg, Tail(s))

\* C7: WhileNM(p, n, m) (WhileNotNM with the negated test) succeeds exactly
\* when the number of leading characters passing the test, counted in
\* characters, lies in [n, m], and then returns that whole run; otherwise it
\* fails with a RangedParserError whose Exec is (that number, n, m).  WhileN
\* and WhileNotN apply the same character-based minimum.
C7_RunCountedInCharacters ==
    (Returned /\ parser.k \in {"WhileN", "WhileNotN", "WhileNM", "WhileNotNM"})
        => LET k == RunLength(parser.p, parser.k \in {"WhileNotN", "WhileNotNM"}, input)
               ranged == parser.k \in {"WhileNM", "WhileNotNM"}
               inRange == parser.n <= k /\ (ranged => k <= parser.m)
           IN  IF inRange
               THEN /\ Ok(result)
                    /\ result.out = OutS(SubSeq(input, 1, k))
                    /\ result.rem = SubSeq(input, k + 1, Len(input))
               ELSE /\ ~Ok(result)
                    /\ result.err[1].kind = "RangedParserError"
                    /\ result.err[1].count = k
                    /\ result.err[1].min = parser.n
                    /\ ranged => result.err[1].max = parser.m

\* C8: when more than m leading characters satisfy p, WhileNM(p, n, m)
\* succeeds, returns the first m of them as the match and leaves the rest of
\* the run in the remaining text.
C8_WhileNMStopsAtMax ==
    (Returned /\ parser.k = "WhileNM" /\ 1 <= parser.n /\ parser.n <= parser.m
       /\ RunLength(parser.p, FALSE, input) > parser.m)
        => /\ Ok(result)
           /\ result.out = OutS(SubSeq(input, 1, parser.m))
           /\ result.rem = SubSeq(input, parser.m + 1, Len(input))

\* C9: First returns exactly the result of the lowest-index alternative that
\* succeeds, provided every alternative before it failed without a CutError;
\* if every alternative fails non-fatally it fails with a CombinatorParseError
\* of type "first" and remaining equal to its input.
C9_FirstSuccessWins ==
    (Returned /\ parser.k = "First")
        => /\ \A i \in 1..Len(parser.a) :
                 (Ok(Alt(i)) /\ \A j \in 1..(i - 1) : NonFatal(j))
                     => /\ Ok(result)
                        /\ result.rem = Alt(i).rem
                        /\ result.out = Alt(i).out
           /\ (\A i \in 1..Len(parser.a) : NonFatal(i))
                 => /\ result.err = CombinatorParseError(<<>>, input, "first")
                    /\ result.rem = input

\* a First whose first alternative failed before reaching the Cut nested in
\* it, and whose second alternative then succeeded and consumed text
C9_Witness ==
    /\ Returned /\ parser.k = "First" /\ Len(parser.a) = 2
    /\ parser.a[1] \in Commits /\ NonFatal(1)
    /\ Ok(result) /\ result.rem # input /\ Len(result.sub) = 2

\* alternative c of an outer First, invoked on s, holds a First that returned
\* an error containing a CutError: c is that First, or runs it after a prefix
InnerFirstCut(c, s) ==
    \/ c.k = "First" /\ Fatal(Run(c, s).err)
    \/ /\ c.k \in {"Prefixed", "Pair"}
       /\ LET pre == IF c.k = "Prefixed" THEN c.a[2] ELSE c.a[1]
              in == IF c.k = "Prefixed" THEN c.a[1] ELSE c.a[2]
          IN  in.k = "First" /\ Ok(Run(pre, s)) /\ Fatal(Run(in, Run(pre, s).rem).err)

\* C10: a CutError raised inside an alternative of an inner First that is
\* (or is nested inside) an alternative of an outer First makes the outer
\* First fail with that CutError and remaining equal to the outer input,
\* without trying the outer First's later alternatives.
C10_NestedCutIsFatal ==
    (Returned /\ parser.k = "First")
        => \A i \in 1..Len(parser.a) :
              (InnerFirstCut(parser.a[i], input) /\ \A j \in 1..(i - 1) : NonFatal(j))
                  => /\ Fatal(result.err)
                     /\ result.err = Alt(i).err
                     /\ result.rem = input
                     /\ TriedExactly(i)

\* an outer First whose first alternative is a Pair ending in an inner First
\* that failed fatally, while the outer second alternative would have succeeded
C10_Witness ==
    /\ Returned /\ parser.k = "First" /\ Len(parser.a) = 2
    /\ parser.a[1].k = "Pair" /\ InnerFirstCut(parser.a[1], input)
    /\ Ok(Alt(2))
    /\ Fatal(result.err) /\ Len(result.sub) = 1


(***************************************************************************)
(* SpecLoop: the greedy repetitions executed one loop pass at a time.      *)
(* The variable loop holds the position of the invocation and the local    *)
(* variables of its "for" loop; each pass is the same body operator the    *)
(* whole-invocation operators iterate.                                      *)
(***************************************************************************)

\* parsers that succeed without consuming anything on some or all inputs
ZeroWidth == {MkWhileN("is_letter", 0), MkWhileNotN("is_digit", 0), MkOpt(TagA)}

LoopBodies == Elem \cup ZeroWidth

Greedy ==
    {MkManyN(c, n) : c \in LoopBodies, n \in 0..1}
       \cup {MkFoldMany(c, 0, "sum_len") : c \in LoopBodies}
       \cup {MkFoldMany0(c, 0, "sum_len") : c \in LoopBodies}
       \cup {MkManyCount(c) : c \in LoopBodies}
       \cup {MkManyCount0(c) : c \in LoopBodies}

\* the slice of extracted strings, recorded up to MaxExt entries
Recorded(ext) == IF Len(ext) > MaxExt THEN SubSeq(ext, 1, MaxExt) ELSE ext

\* one pass through the loop of greedy repetition p; the history of calls is
\* not part of the loop's variables
LoopBody(p, f) ==
    LET g == CASE p.k = "ManyN" -> ManyNBody(p.a[1], f)
               [] p.k \in {"FoldMany", "FoldMany0"} -> FoldManyBody(p.a[1], p.p, f)
               [] p.k \in {"ManyCount", "ManyCount0"} -> ManyCountBody(p.a[1], f)
    IN  [g EXCEPT !.ext = Recorded(@), !.sub = <<>>]

\* what greedy repetition p returns once its loop was left with frame f
LoopReturn(p, f) ==
    CASE p.k = "ManyN" -> ManyNReturn(p.n, f)
      [] p.k = "FoldMany" -> FoldManyReturn(p.n, f)
      [] p.k = "FoldMany0" -> FoldMany0Return(f)
      [] p.k = "ManyCount" -> ManyCountReturn(f)
      [] p.k = "ManyCount0" -> ManyCount0Return(f)

InitLoop ==
    /\ parser \in Greedy
    /\ input = <<>>
    /\ result = NoResult
    /\ phase = "built"
    /\ loop = NoLoop
    /\ shared = NoShared
    /\ gor = NoGor

\* the parser is invoked on s: the locals are initialised, the loop is entered
Enter(s) ==
    /\ loop.pc = "idle"
    /\ input' = s
    /\ loop' = [pc |-> "loop", f |-> Frame(s, parser.n)]
    /\ UNCHANGED <<parser, result, phase, shared, gor>>

\* one pass through the loop body: c succeeded and the loop goes round again
Iterate ==
    /\ loop.pc = "loop"
    /\ \E g \in {LoopBody(parser, loop.f)} :
          /\ ~g.brk
          /\ loop' = [loop EXCEPT !.f = g]
    /\ UNCHANGED <<parser, input, result, phase, shared, gor>>

\* one pass through the loop body: c failed and the loop is left by "break"
Break ==
    /\ loop.pc = "loop"
    /\ \E g \in {LoopBody(parser, loop.f)} :
          /\ g.brk
          /\ loop' = [loop EXCEPT !.pc = "left", !.f = g]
    /\ UNCHANGED <<parser, input, result, phase, shared, gor>>

\* the statements after the loop
Return ==
    /\ loop.pc = "left"
    /\ result' = LoopReturn(parser, loop.f)
    /\ loop' = [loop EXCEPT !.pc = "returned"]
    /\ UNCHANGED <<parser, input, phase, shared, gor>>

\* the caller is done with the result
Release ==
    /\ loop.pc = "returned"
    /\ input' = <<>>
    /\ result' = NoResult
    /\ loop' = NoLoop
    /\ UNCHANGED <<parser, phase, shared, gor>>

NextLoop == (\E s \in Inputs : Enter(s)) \/ Iterate \/ Break \/ Return \/ Release

\* a running invocation keeps executing its statements
FairLoop == WF_vars(Iterate) /\ WF_vars(Break) /\ WF_vars(Return)

SpecLoop == InitLoop /\ [][NextLoop]_vars /\ FairLoop

(* Properties checked under SpecLoop *)

\* the step-wise execution returns what the whole-invocation operator returns
\* whenever the recorded slice was not cut short
StepwiseAgrees ==
    (loop.pc = "returned" /\ Len(loop.f.ext) < MaxExt)
        => LET r == Run(parser, input)
           IN  result.rem = r.rem /\ result.out = r.out /\ result.err = r.err

\* C5: every invocation of Many, ManyN, FoldMany, FoldMany0, ManyCount and
\* ManyCount0 terminates, even when the inner parser succeeds without
\* consuming input: an invocation that entered its loop eventually returns.
C5_GreedyLoopsTerminate == (loop.pc = "loop") ~> (loop.pc = "returned")


(***************************************************************************)
(* SpecConc: one RepeatRange(c, n, m) closure invoked by several           *)
(* goroutines.  The closure captures n and m by reference and its body     *)
(* assigns to them, so the variable shared holds the one copy all          *)
(* invocations read and write; nothing in the code orders those accesses,  *)
(* and each read and each write is a step of its own.                      *)
(***************************************************************************)

Goroutines == 2

ConcParsers == {MkRepeatRange(TagA, n, m) : n \in Counts, m \in Counts}

ConcInputs == {s \in Inputs : Len(s) <= 2 /\ \A i \in 1..Len(s) : s[i] # "u"}

Idle == [pc |-> "idle", s |-> <<>>, tn |-> 0, tm |-> 0, lim |-> 0,
         f |-> RangeFrame(<<>>), ret |-> NoResult]

InitConc ==
    /\ parser \in ConcParsers
    /\ shared = [n |-> parser.n, m |-> parser.m]
    /\ gor = [g \in 1..Goroutines |-> Idle]
    /\ input = <<>>
    /\ result = NoResult
    /\ phase = "built"
    /\ loop = NoLoop

\* goroutine g calls the closure with s
GoCall(g, s) ==
    /\ gor[g].pc = "idle"
    /\ gor' = [gor EXCEPT ![g] = [Idle EXCEPT !.pc = "compare", !.s = s]]
    /\ UNCHANGED <<parser, input, result, phase, loop, shared>>

\* "if n > m"
Compare(g) ==
    /\ gor[g].pc = "compare"
    /\ gor' = [gor EXCEPT ![g].pc = IF shared.n > shared.m THEN "swap" ELSE "range"]
    /\ UNCHANGED <<parser, input, result, phase, loop, shared>>

\* "n, m = m, n": the right-hand side is read
SwapRead(g) ==
    /\ gor[g].pc = "swap"
    /\ gor' = [gor EXCEPT ![g].pc = "write_n", ![g].tn = shared.m, ![g].tm = shared.n]
    /\ UNCHANGED <<parser, input, result, phase, loop, shared>>

\* "n, m = m, n": n is written
WriteN(g) ==
    /\ gor[g].pc = "write_n"
    /\ shared' = [shared EXCEPT !.n = gor[g].tn]
    /\ gor' = [gor EXCEPT ![g].pc = "write_m"]
    /\ UNCHANGED <<parser, input, result, phase, loop>>

\* "n, m = m, n": m is written
WriteM(g) ==
    /\ gor[g].pc = "write_m"
    /\ shared' = [shared EXCEPT !.m = gor[g].tm]
    /\ gor' = [gor EXCEPT ![g].pc = "range"]
    /\ UNCHANGED <<parser, input, result, phase, loop>>

\* "rem := s; for i := range m": the range expression is evaluated once
Range(g) ==
    /\ gor[g].pc = "range"
    /\ gor' = [gor EXCEPT ![g].pc = "loop", ![g].lim = shared.m,
                          ![g].f = RangeFrame(gor[g].s)]
    /\ UNCHANGED <<parser, input, result, phase, loop, shared>>

\* one pass through the loop, or the return that ends the invocation
LoopPass(g) ==
    /\ gor[g].pc = "loop"
    /\ LET t == RepeatRangeBody(parser.a[1], shared.n, shared.m, gor[g].lim, gor[g].f)
       IN  gor' = [gor EXCEPT ![g].pc = IF t.done THEN "returned" ELSE "loop",
                              ![g].f = t.f,
                              ![g].ret = IF t.done THEN t.ret ELSE @]
    /\ UNCHANGED <<parser, input, result, phase, loop, shared>>

\* the caller of goroutine g is done with the result
Collect(g) ==
    /\ gor[g].pc = "returned"
    /\ gor' = [gor EXCEPT ![g] = Idle]
    /\ UNCHANGED <<parser, input, result, phase, loop, shared>>

NextConc ==
    \E g \in 1..Goroutines :
        \/ \E s \in ConcInputs : GoCall(g, s)
        \/ Compare(g)
        \/ SwapRead(g)
        \/ WriteN(g)
        \/ WriteM(g)
        \/ Range(g)
        \/ LoopPass(g)
        \/ Collect(g)

SpecConc == InitConc /\ [][NextConc]_vars

(* Properties checked under SpecConc *)

\* what goroutine g got is what the parser returns for g's input on its own
SameAsAlone(g) ==
    LET r == Run(parser, gor[g].s)
    IN  gor[g].ret.rem = r.rem /\ gor[g].ret.out = r.out /\ gor[g].ret.err = r.err

\* C6: concurrent invocations of the same parser do not affect each other:
\* every invocation that has returned, RepeatRange built with n > m included,
\* returned exactly what it returns when it is the only invocation.
C6_ConcurrentInvocationsIndependent ==
    \A g \in 1..Goroutines : gor[g].pc = "returned" => SameAsAlone(g)


----------------------------------------------------------------------------
(* Properties checked under Spec, continued *)

\* what the only sub-parser of the modifier under invocation returns on the input
Sub == Run(parser.a[1], input)

\* C11: Cut(c) called on s returns c's result unchanged when c succeeds; when
\* c fails it returns a CutError wrapping c's error with remaining equal to
\* s, whatever remaining c itself returned with its error.
C11_CutKeepsPosition ==
    (Returned /\ parser.k = "Cut")
        => IF Sub.err = NoErr
           THEN /\ result.err = NoErr
                /\ result.rem = Sub.rem
                /\ result.out = Sub.out
           ELSE /\ result.err # NoErr
                /\ Head(result.err).kind = "CutError"
                /\ Unwrap(result.err) = Sub.err
                /\ result.rem = input

\* a Cut whose sub-parser failed after consuming part of the input
C11_Witness ==
    /\ Returned /\ parser.k = "Cut"
    /\ Sub.err # NoErr /\ Sub.rem # input
    /\ result.rem = input /\ Head(result.err).kind = "CutError"


\* the number of consecutive successful runs of c from s, counted up to limit
RECURSIVE Successes(_, _, _)
Successes(c, s, limit) ==
    IF limit = 0 \/ Run(c, s).err # NoErr THEN 0
    ELSE 1 + Successes(c, Run(c, s).rem, limit - 1)

Least(n, m) == IF n <= m THEN n ELSE m
Most(n, m) == IF n <= m THEN m ELSE n

\* the calls recorded in sub were made one after the other from s, each on
\* the text the one before left, and none but the last failed
Consecutive(sub, s) ==
    \A j \in 1..Len(sub) :
        /\ sub[j].in = (IF j = 1 THEN s ELSE sub[j - 1].rem)
        /\ j < Len(sub) => sub[j].err = NoErr

\* C12: RepeatRange(c, n, m) runs c at most max(n, m) times, stopping at the
\* first failure, and succeeds exactly when at least min(n, m) consecutive
\* runs succeeded; on success it collected between min(n, m) and max(n, m)
\* runs, on failure its RangedParserError reports the number of runs that
\* succeeded, min(n, m) and max(n, m).
C12_RepeatRangeBounds ==
    (Returned /\ parser.k = "RepeatRange")
        => LET lo == Least(parser.n, parser.m)
               hi == Most(parser.n, parser.m)
               k == Successes(parser.a[1], input, hi)
           IN  /\ Len(result.sub) = (IF k < hi THEN k + 1 ELSE hi)
               /\ \A j \in 1..Len(result.sub) : result.sub[j].c = parser.a[1]
               /\ Consecutive(result.sub, input)
               /\ (result.err = NoErr) <=> (k >= lo)
               /\ (result.err = NoErr /\ TypeOf(parser.a[1]) = "string")
                     => Len(result.out.l) = k
               /\ (result.err # NoErr)
                     => /\ Head(result.err).kind = "RangedParserError"
                        /\ Head(result.err).count = k
                        /\ Head(result.err).min = lo
                        /\ Head(result.err).max = hi

\* a RepeatRange built with n > m that ran its sub-parser n times
C12_Witness ==
    /\ Returned /\ parser.k = "RepeatRange" /\ parser.n > parser.m
    /\ parser.n >= 2 /\ result.err = NoErr
    /\ Len(result.sub) = parser.n /\ Len(result.out.l) = parser.n


\* C13: Opt(c) never returns an error, for any c and any input, the empty
\* input included.
C13_OptNeverFails ==
    (Returned /\ parser.k = "Opt") => result.err = NoErr

\* an Opt called on the empty input whose sub-parser failed fatally
C13_Witness ==
    /\ Returned /\ parser.k = "Opt" /\ input = <<>>
    /\ Fatal(Sub.err) /\ result.err = NoErr


\* C14: Peek(c) called on s always returns remaining equal to s, whether c
\* succeeds or fails, and returns c's match and c's error unchanged.
C14_PeekNeverAdvances ==
    (Returned /\ parser.k = "Peek")
        => /\ result.rem = input
           /\ result.out = Sub.out
           /\ result.err = Sub.err

\* a Peek whose sub-parser succeeded and consumed text
C14_Witness ==
    /\ Returned /\ parser.k = "Peek"
    /\ Sub.err = NoErr /\ Sub.rem # input
    /\ result.rem = input /\ result.err = NoErr /\ result.out = Sub.out


\* C17: AllConsuming(c) on s succeeds, with c's match and empty remaining,
\* exactly when c succeeds on s leaving no text; in every other case (c
\* fails, or c succeeds with text left) it returns an error with remaining
\* equal to s.
C17_AllConsumingAllOrNothing ==
    (Returned /\ parser.k = "AllConsuming")
        => LET whole == Sub.err = NoErr /\ Sub.rem = <<>>
           IN  /\ (result.err = NoErr) <=> whole
               /\ whole => (result.out = Sub.out /\ result.rem = <<>>)
               /\ ~whole => result.rem = input

\* an AllConsuming whose sub-parser succeeded and left text over
C17_Witness ==
    /\ Returned /\ parser.k = "AllConsuming"
    /\ Sub.err = NoErr /\ Sub.rem # <<>> /\ Sub.rem # input
    /\ result.err # NoErr /\ result.rem = input


\* C18: when c succeeds on s with remaining r, Recognize(c)(s) returns
\* remaining r and a match x with s = x ++ r, so that Tag(x)(s) succeeds and
\* returns the same remaining r; when c fails, Recognize(c) fails with
\* remaining equal to s.
C18_RecognizeIsConsumedPrefix ==
    (Returned /\ parser.k = "Recognize")
        => IF Sub.err = NoErr
           THEN /\ result.err = NoErr
                /\ result.rem = Sub.rem
                /\ result.out.t = "string"
                /\ input = result.out.s \o result.rem
                /\ Tag(result.out.s, input).err = NoErr
                /\ Tag(result.out.s, input).rem = Sub.rem
           ELSE /\ result.err # NoErr
                /\ result.rem = input

\* a Recognize over a Delimited, whose own match leaves the delimiters out:
\* the whole three-character input was consumed and is the match
C18_Witness ==
    /\ Returned /\ parser.k = "Recognize" /\ parser.a[1].k = "Delimited"
    /\ Sub.err = NoErr /\ Len(Sub.out.s) = 1
    /\ Len(result.out.s) = 3 /\ result.rem = <<>>


\* the results of the elements that follow, each after a separator, the text
\* rem at which an element ended: as long as separator and element both match
RECURSIVE Following(_, _, _)
Following(c, sep, rem) ==
    LET rs == Run(sep, rem)
    IN  IF rs.err # NoErr THEN <<>>
        ELSE LET rc == Run(c, rs.rem)
             IN  IF rc.err # NoErr THEN <<>>
                 ELSE <<rc>> \o Following(c, sep, rc.rem)

\* the strings a sequence of results contributes to a collected slice
RECURSIVE Gathered(_)
Gathered(rs) ==
    IF rs = <<>> THEN <<>>
    ELSE (CASE Head(rs).out.t = "string" -> <<Head(rs).out.s>>
            [] Head(rs).out.t = "slice" -> Head(rs).out.l
            [] OTHER -> <<>>) \o Gathered(Tail(rs))

\* C19: SeparatedList(c, sep) fails if the first element does not match;
\* otherwise it collects c and every following (sep, c) pair for as long as
\* both match, and its remaining is the text right after the last collected
\* element, so a separator not followed by an element is not consumed.
\* SeparatedList0 differs only when the first element does not match: it
\* succeeds with an empty result and remaining equal to the input.
C19_SeparatedListElements ==
    (Returned /\ parser.k \in {"SeparatedList", "SeparatedList0"})
        => LET c == parser.a[1]
               sep == parser.a[2]
               first == Run(c, input)
               els == <<first>> \o Following(c, sep, first.rem)
           IN  IF first.err # NoErr
               THEN IF parser.k = "SeparatedList"
                    THEN result.err # NoErr
                    ELSE /\ result.err = NoErr
                         /\ result.out = OutL(<<>>)
                         /\ result.rem = input
               ELSE /\ result.err = NoErr
                    /\ result.out = OutL(Gathered(els))
                    /\ result.rem = els[Len(els)].rem

\* a list of one element followed by a separator that no element follows:
\* the separator matched and is left in the remaining text
C19_Witness ==
    /\ Returned /\ parser.k = "SeparatedList"
    /\ Len(result.sub) = 3
    /\ result.sub[2].c = parser.a[2] /\ result.sub[2].err = NoErr
    /\ result.sub[2].rem # result.sub[2].in
    /\ result.sub[3].err # NoErr
    /\ result.err = NoErr /\ Len(result.out.l) = 1
    /\ result.rem = result.sub[2].in


\* the runs of c from rem up to the first place where term matches: whether
\* such a place was reached before c failed, the results of the runs, and
\* the text after the terminator's match
RECURSIVE Till(_, _, _)
Till(c, term, rem) ==
    LET rt == Run(term, rem)
        rc == Run(c, rem)
    IN  IF rt.err = NoErr THEN [found |-> TRUE, els |-> <<>>, rem |-> rt.rem]
        ELSE IF rc.err # NoErr THEN [found |-> FALSE, els |-> <<>>, rem |-> rem]
        ELSE LET t == Till(c, term, rc.rem)
             IN  [t EXCEPT !.els = <<rc>> \o @]

\* C20: ManyTill(c, term) succeeds only after at least one successful run of
\* c followed by a match of term; it returns the outputs of the runs of c in
\* order, without the terminator's match, and its remaining is the text
\* after the terminator's match.  When term matches at the very start
\* ManyTill fails, whereas ManyTill0 succeeds with an empty result and the
\* terminator consumed.
C20_ManyTillStopsAfterTerminator ==
    (Returned /\ parser.k \in {"ManyTill", "ManyTill0"})
        => LET t == Till(parser.a[1], parser.a[2], input)
               least == IF parser.k = "ManyTill" THEN 1 ELSE 0
               start == Run(parser.a[2], input)
           IN  /\ (result.err = NoErr) <=> (t.found /\ Len(t.els) >= least)
               /\ (result.err = NoErr)
                     => /\ result.out = OutL(Gathered(t.els))
                        /\ result.rem = t.rem
               /\ (start.err = NoErr /\ parser.k = "ManyTill") => result.err # NoErr
               /\ (start.err = NoErr /\ parser.k = "ManyTill0")
                     => /\ result.err = NoErr
                        /\ result.out = OutL(<<>>)
                        /\ result.rem = start.rem

\* a ManyTill that collected two elements and then consumed its terminator
C20_Witness ==
    /\ Returned /\ parser.k = "ManyTill"
    /\ result.err = NoErr /\ Len(result.out.l) = 2
    /\ Len(result.sub) = 5 /\ result.sub[5].c = parser.a[2]
    /\ result.sub[5].rem # result.sub[5].in /\ result.rem = result.sub[5].rem


(***************************************************************************)
(* SpecPrim: a primitive scanner is invoked on any text over an alphabet   *)
(* that holds, besides the characters of Alphabet, an upper-case letter,   *)
(* the escape character and the line-ending and tab characters.            *)
(***************************************************************************)

PrimAlphabet == Alphabet \cup {"A", "\\", "\n", "\r", "\t"}

PrimInputs == SeqsUpTo(PrimAlphabet, MaxLen)

\* the character sets and literals given to the scanners
Literals == {<<>>, <<"a">>, <<"u">>, <<"a", "1">>, <<"1", "\\">>, <<"u", "a">>}

Escapes ==
    LET Normal == {MkWhileN("is_letter", 1), MkAny(<<"a", "1">>), MkNot(<<"1">>)}
        Escapable == {MkOneOf(<<"\\", "1", "\n">>), MkTag(<<"u">>)}
    IN  {MkEscaped(n, "\\", e) : n \in Normal, e \in Escapable}
        \cup {MkEscapedTransform(n, "\\", e) : n \in Normal, e \in Escapable}

PrimParsers ==
    {MkTag(str) : str \in Literals}
    \cup {MkTagNoCase(str) : str \in Literals \cup {<<"A", "1">>}}
    \cup {MkChar(c) : c \in {"a", "u", "\\"}}
    \cup {MkAnyChar, MkCrlf, MkEol, MkNewline, MkTab}
    \cup {MkSatisfy(p) : p \in {"is_letter", "is_digit"}}
    \cup {MkAny(str) : str \in Literals}
    \cup {MkNot(str) : str \in Literals}
    \cup {MkOneOf(str) : str \in Literals}
    \cup {MkNoneOf(str) : str \in Literals}
    \cup {MkUntil(str) : str \in Literals}
    \cup {MkTakeUntil1(str) : str \in Literals}
    \cup {MkTake(n) : n \in Counts}
    \cup Runs
    \cup Escapes

InitPrim ==
    /\ parser \in PrimParsers
    /\ input = <<>>
    /\ result = NoResult
    /\ phase = "built"
    /\ loop = NoLoop
    /\ shared = NoShared
    /\ gor = NoGor

\* the scanner is called with some text s and returns
Scan ==
    /\ phase = "built"
    /\ \E s \in PrimInputs :
          /\ input' = s
          /\ result' = Run(parser, s)
    /\ phase' = "returned"
    /\ UNCHANGED <<parser, loop, shared, gor>>

\* the caller is done with the result; the scanner can be called again
Rescan ==
    /\ phase = "returned"
    /\ input' = <<>>
    /\ result' = NoResult
    /\ phase' = "built"
    /\ UNCHANGED <<parser, loop, shared, gor>>

NextPrim == Scan \/ Rescan

SpecPrim == InitPrim /\ [][NextPrim]_vars

(* Properties checked under SpecPrim *)

\* the scanners whose match is a piece of the input text
TextKinds ==
    {"Tag", "TagNoCase", "Char", "AnyChar", "Satisfy", "OneOf", "NoneOf", "Any", "Not",
     "Until", "TakeUntil1", "Take", "WhileN", "WhileNM", "WhileNotN", "WhileNotNM",
     "Escaped", "Crlf"}

\* C15: for every successful call of a text-returning primitive scanner on
\* s, s equals the returned match followed by the returned remaining.
C15_MatchThenRemainingIsInput ==
    (Returned /\ parser.k \in TextKinds /\ result.err = NoErr)
        => /\ result.out.t = "string"
           /\ input = result.out.s \o result.rem

\* an Escaped that matched a two-byte letter and an escaped character and
\* left the rest of the input
C15_Witness ==
    /\ Returned /\ parser.k = "Escaped" /\ result.err = NoErr
    /\ Len(input) = 3 /\ input[1] = "\\" /\ input[3] = "\n"
    /\ result.out.s = SubSeq(input, 1, 2) /\ result.rem = <<"\n">>
    /\ result.out.s[2] = "u"

\* C16: every failing call of a primitive scanner returns remaining equal
\* to its input and an empty match.
C16_FailureConsumesNothing ==
    (Returned /\ parser.k \in TextKinds \cup {"EscapedTransform", "Newline", "Tab"}
       /\ result.err # NoErr)
        => /\ result.rem = input
           /\ result.out = OutS(<<>>)

\* an EscapedTransform that fails on an escape character nothing escapable
\* follows, after its sub-parsers were tried
C16_Witness ==
    /\ Returned /\ parser.k = "EscapedTransform" /\ result.err # NoErr
    /\ Len(input) = 3 /\ input[1] = "\\" /\ Len(result.sub) = 2
    /\ result.rem = input


\* the text left after k consecutive successful runs of c from s
RECURSIVE After(_, _, _)
After(c, s, k) == IF k = 0 THEN s ELSE After(c, Run(c, s).rem, k - 1)

\* the outputs of k consecutive successful runs of c from s, flattened in order
RECURSIVE Flattened(_, _, _)
Flattened(c, s, k) ==
    IF k = 0 THEN <<>>
    ELSE LET r == Run(c, s)
         IN  (IF r.out.t = "string" THEN <<r.out.s>> ELSE r.out.l)
                 \o Flattened(c, r.rem, k - 1)

\* r is what running c exactly n times from s has to return
ExactlyTimes(r, c, n, s) ==
    LET k == Successes(c, s, n)
    IN  /\ (r.err = NoErr) <=> (k = n)
        /\ (r.err = NoErr)
              => /\ r.out = OutL(Flattened(c, s, n))
                 /\ r.rem = After(c, s, n)
        /\ (r.err # NoErr)
              => /\ Head(r.err).kind = "RangedParserError"
                 /\ Head(r.err).count = k
                 /\ Head(r.err).min = n
                 /\ Tail(r.err) = Run(c, After(c, s, k)).err
        /\ (n = 0) => (r.err = NoErr /\ r.rem = s)

\* C21: Repeat(c, n), and LengthCount once its length parser returned n,
\* succeeds exactly when c succeeds n times in a row on the successively
\* remaining text, and then returns those n outputs flattened in order; when
\* run i+1 fails after i < n successes the error is a RangedParserError with
\* count i and min n wrapping c's error; Repeat(c, 0) succeeds without
\* invoking c and without consuming input.
C21_RepeatExactlyN ==
    /\ (Returned /\ parser.k = "Repeat")
          => /\ ExactlyTimes(result, parser.a[1], parser.n, input)
             /\ (parser.n = 0) => result.sub = <<>>
    /\ (Returned /\ parser.k = "LengthCount" /\ Sub.err = NoErr)
          => ExactlyTimes(result, parser.a[2], Sub.out.u, Sub.rem)

\* a Repeat of a Pair, asked for two runs, whose second run failed halfway
C21_Witness ==
    /\ Returned /\ parser.k = "Repeat" /\ parser.n = 2
    /\ parser.a[1].k = "Pair"
    /\ Len(result.sub) = 2 /\ result.sub[2].err # NoErr
    /\ result.sub[2].rem # result.sub[2].in
    /\ Head(result.err).count = 1 /\ Head(result.err).min = 2


\* text s starts with the characters of lit
StartsWith(s, lit) == Len(s) >= Len(lit) /\ SubSeq(s, 1, Len(lit)) = lit

RECURSIVE LineLen(_)
LineLen(s) ==
    IF s = <<>> \/ Head(s) \in {"\n", "\r"} THEN 0 ELSE 1 + LineLen(Tail(s))

RECURSIVE FoldLeft(_, _, _)
FoldLeft(reducer, acc, list) ==
    IF list = <<>> THEN acc
    ELSE FoldLeft(reducer, Reduce(reducer, acc, OutS(Head(list))), Tail(list))

\* what ManyN(c, n) returns on the input, c being the sub-parser under invocation
Collected(n) == Run(MkManyN(parser.a[1], n), input)

\* C24: for a string-returning c, FoldMany0(c, init, f) returns the remaining
\* of ManyN(c, 0) and the left fold of f from init over the list ManyN(c, 0)
\* returns; ManyCount0(c) returns the same remaining and the length of that
\* list; FoldMany and ManyCount agree with Many in the same way and fail
\* exactly when Many fails.
C24_FoldAndCountAgreeWithMany ==
    (Returned /\ parser.k \in {"FoldMany0", "FoldMany", "ManyCount0", "ManyCount"}
        /\ TypeOf(parser.a[1]) = "string")
        => LET many == Collected(IF parser.k \in {"FoldMany0", "ManyCount0"} THEN 0 ELSE 1)
           IN  /\ result.rem = many.rem
               /\ (result.err = NoErr) <=> (many.err = NoErr)
               /\ (result.err = NoErr /\ parser.k \in {"FoldMany0", "FoldMany"})
                     => result.out = OutU(FoldLeft(parser.p, parser.n, many.out.l))
               /\ (result.err = NoErr /\ parser.k \in {"ManyCount0", "ManyCount"})
                     => result.out = OutU(Len(many.out.l))
               /\ (parser.k \in {"FoldMany0", "ManyCount0"}) => result.err = NoErr

\* a FoldMany0 started from a non-zero accumulator that folded three matches
C24_Witness ==
    /\ Returned /\ parser.k = "FoldMany0" /\ parser.n > 0
    /\ Len(Collected(0).out.l) = 3
    /\ result.err = NoErr /\ result.out.u > parser.n


\* normal matches a non-empty text at the start of s (Escaped under invocation)
NormalAt(s) ==
    LET r == Run(parser.a[1], s) IN r.err = NoErr /\ r.out.s # <<>>

\* s starts with an escape sequence: the escape character followed by a
\* non-empty escapable match
EscapeAt(s) ==
    /\ Len(s) >= 2 /\ s[1] = parser.str[1]
    /\ LET r == Run(parser.a[2], Tail(s)) IN r.err = NoErr /\ r.out.s # <<>>

\* the texts the scan stood in front of: every text normal was called on
Reached == {result.sub[j].in : j \in {i \in 1..Len(result.sub) : result.sub[i].c = parser.a[1]}}

\* Escaped fails, with remaining equal to the input, exactly when neither a
\* non-empty normal match nor an escape sequence starts the input; on
\* success match and remaining are the input cut in two, and every step of
\* the scan took a normal match or a whole escape sequence
EscapedScans ==
    /\ (result.err # NoErr) <=> (~NormalAt(input) /\ ~EscapeAt(input))
    /\ (result.err # NoErr) => (result.rem = input /\ result.out = OutS(<<>>))
    /\ (result.err = NoErr)
          => /\ result.out.s # <<>>
             /\ input = result.out.s \o result.rem
             /\ \A t \in Reached : (t # result.rem) => (NormalAt(t) \/ EscapeAt(t))

LastCall == result.sub[Len(result.sub)]

\* the error at the end of the unwrap chain of err
Leaf(err) == err[Len(err)]

\* C26: when Pair, SepPair, All, Delimited, Repeat, RepeatRange or ManyN
\* fails, a sub-parser failed and the error returned wraps that sub-parser's
\* error unchanged: unwrapping it once yields exactly the error the
\* sub-parser returned, and the end of the unwrap chain is the leaf error of
\* the primitive that did not match.
C26_CompositeErrorWrapsInner ==
    (Returned /\ result.err # NoErr
        /\ parser.k \in {"Pair", "SepPair", "All", "Delimited", "Repeat", "RepeatRange", "ManyN"})
        => /\ result.sub # <<>>
           /\ LastCall.err # NoErr
           /\ Head(result.err).kind \in {"ParserError", "RangedParserError"}
           /\ Tail(result.err) = LastCall.err
           /\ Leaf(result.err).kind = "CombinatorParseError"
           /\ Leaf(result.err) = Leaf(Run(LastCall.c, LastCall.in).err)

\* a ManyN over a Pair that failed at the Pair's second part: a ranged
\* error around the Pair's error around the error of the primitive
C26_Witness ==
    /\ Returned /\ parser.k = "ManyN" /\ parser.a[1].k = "Pair"
    /\ Len(result.err) = 3
    /\ result.err[1].kind = "RangedParserError"
    /\ result.err[2].kind = "ParserError"
    /\ result.err[3].kind = "CombinatorParseError"
    /\ LastCall.rem # LastCall.in


\* C27: whenever RepeatRange(c, n, m) succeeds on input s, its remaining is
\* the remaining returned by the last successful run of c (s when no run
\* succeeded): text examined by the final failed run of c is never consumed,
\* also when c is a composite that returns a partially advanced remaining
\* together with its error.
C27_RepeatRangeKeepsLastGoodRemaining ==
    (Returned /\ parser.k = "RepeatRange" /\ result.err = NoErr)
        => LET hi == Most(parser.n, parser.m)
               k == Successes(parser.a[1], input, hi)
           IN  result.rem = After(parser.a[1], input, k)


\* C28: whenever ManyN(c, n) succeeds on input s with k collected runs and
\* remaining r, k >= n, r is the remaining returned by the k-th successful
\* run of c (s when k = 0), and c fails when applied to r: the repetition is
\* maximal and the failed final attempt consumes nothing, whatever remaining
\* c returned with its error.
C28_ManyNMaximal ==
    (Returned /\ parser.k = "ManyN" /\ result.err = NoErr)
        => LET c == parser.a[1]
               k == Len(result.sub) - 1
           IN  /\ k >= parser.n
               /\ k = Successes(c, input, Len(input) + 1)
               /\ result.out = OutL(Flattened(c, input, k))
               /\ result.rem = After(c, input, k)
               /\ Run(c, result.rem).err # NoErr

\* a ManyN over a Pair that collected a run and whose final attempt failed
\* after the Pair's first part consumed text
C28_Witness ==
    /\ Returned /\ parser.k = "ManyN" /\ parser.a[1].k = "Pair"
    /\ result.err = NoErr /\ Len(result.sub) = 2
    /\ LastCall.err # NoErr /\ LastCall.rem # LastCall.in
    /\ result.rem = LastCall.in


\* text r is what is left of text s after some prefix of it
SuffixOf(r, s) ==
    /\ Len(r) <= Len(s)
    /\ SubSeq(s, Len(s) - Len(r) + 1, Len(s)) = r

\* C29: for every parser composed of library primitives and combinators and
\* every input s, the returned remaining is a suffix of s, on success and on
\* failure, and so is the remaining every sub-parser returned for the text
\* it was called on; hence the slice s[:len(s)-len(rem)] taken by Recognize
\* and Consumed is within bounds and is the text in front of the remaining.
C29_RemainingIsSuffix ==
    Returned
        => /\ SuffixOf(result.rem, input)
           /\ \A j \in 1..Len(result.sub) :
                 /\ SuffixOf(result.sub[j].in, input)
                 /\ SuffixOf(result.sub[j].rem, result.sub[j].in)
           /\ (parser.k \in {"Recognize", "Consumed"} /\ result.err = NoErr)
                 => /\ ByteLen(Sub.rem) <= ByteLen(input)
                    /\ (IF parser.k = "Recognize" THEN result.out.s ELSE Head(result.out.l))
                          = SubSeq(input, 1, Len(input) - Len(result.rem))

\* a Recognize over a Pair with a two-byte letter that left part of the input
C29_Witness ==
    /\ Returned /\ parser.k = "Recognize" /\ parser.a[1].k = "Pair"
    /\ result.err = NoErr /\ Len(input) = 3 /\ input[1] = "u"
    /\ Len(result.out.s) = 2 /\ result.rem = <<input[3]>>


\* the sub-parser calls of a ManyTill or ManyTill0 come in rounds, one for
\* each position reached: call 2i-1 is the terminator's, call 2i the element's
Rounds == (Len(result.sub) + 1) \div 2

TermCall(i) == result.sub[2 * i - 1]

ElemCall(i) == result.sub[2 * i]

\* C30: ManyTill(c, term) and ManyTill0(c, term) try the terminator before
\* the element at every position reached by successive runs of c and stop at
\* the first such position where term matches, even if c would match there
\* too, so that no collected element starts where term matches; when c fails
\* at a position where term does not match they fail with a ParserError
\* wrapping c's error.
C30_ManyTillTriesTerminatorFirst ==
    (Returned /\ parser.k \in {"ManyTill", "ManyTill0"})
        => /\ Rounds >= 1
           /\ TermCall(1).in = input
           /\ \A i \in 1..Rounds :
                 /\ TermCall(i).c = parser.a[2]
                 /\ (i < Rounds) => (2 * i <= Len(result.sub) /\ ElemCall(i).err = NoErr)
                 /\ (2 * i <= Len(result.sub))
                       => /\ ElemCall(i).c = parser.a[1]
                          /\ ElemCall(i).in = TermCall(i).in
                          /\ TermCall(i).err # NoErr
                          /\ Run(parser.a[2], ElemCall(i).in).err # NoErr
                          /\ (i < Rounds) => TermCall(i + 1).in = ElemCall(i).rem
           /\ (Len(result.sub) = 2 * Rounds - 1) => TermCall(Rounds).err = NoErr
           /\ (Len(result.sub) = 2 * Rounds)
                 => /\ ElemCall(Rounds).err # NoErr
                    /\ result.err # NoErr
                    /\ Head(result.err).kind = "ParserError"
                    /\ Tail(result.err) = ElemCall(Rounds).err
           /\ (result.err = NoErr)
                 => /\ Len(result.sub) = 2 * Rounds - 1
                    /\ result.rem = TermCall(Rounds).rem

\* a ManyTill that collected one element and stopped where the terminator
\* matched, at a position where the element would have matched as well
C30_Witness ==
    /\ Returned /\ parser.k = "ManyTill" /\ result.err = NoErr
    /\ Len(result.sub) = 3 /\ Len(result.out.l) = 1
    /\ Run(parser.a[1], TermCall(2).in).err = NoErr
    /\ TermCall(2).err = NoErr /\ result.rem = TermCall(2).rem

====
